---------------------------- MODULE Spec2Model ----------------------------
(***************************************************************************)
(* Multi-cloud cost dashboard: the normalizer                              *)
(* (backend/app/services/normalization_service.py) and the read path       *)
(* (backend/app/services/optimization_service.py) over the three tables    *)
(* of backend/app/models/db_models.py, and the seeding job                 *)
(* (backend/scripts/seed_demo_data.py) that fills them from the provider   *)
(* adapters (backend/app/providers).                                       *)
(*                                                                         *)
(* Conventions.                                                            *)
(*  - A Python str is a tuple of one-character strings, so that lower(),   *)
(*    "in" (substring) and concatenation are computed, not assumed.        *)
(*    Provider names are the closed enum CloudProviderEnum and stay        *)
(*    atomic strings.                                                      *)
(*  - A Python value of a raw record is a record [type |-> ..., ...] named  *)
(*    after its Python type; a raw record is a function from the keys it   *)
(*    holds to such values.                                                *)
(*  - In the tables money is an integer number of cents, a utilisation an *)
(*    integer number of tenths of a percentage point, a timestamp an       *)
(*    integer number of days.  An SQL AVG is kept as the exact fraction    *)
(*    sum/count.  A number of a raw record is in hundredths.               *)
(*  - A table is a bag of rows (the autoincrement primary key of a record  *)
(*    row is read by no query).                                            *)
(***************************************************************************)
EXTENDS Integers, Sequences, FiniteSets, Bags, TLC

VARIABLES
    now,                  \* datetime.utcnow(), in days
    cloud_accounts,       \* table cloud_accounts: sequence of rows, row i has id i
    cost_records,         \* table cost_records: bag of rows
    performance_records,  \* table performance_records: bag of rows
    reply,                \* the value returned by the latest read operation since the last write
    request,              \* arguments of a normalize_*_records call
    normalized,           \* what that call returned or raised
    seeding               \* the run of scripts/seed_demo_data.py: its position and its session

vars == <<now, cloud_accounts, cost_records, performance_records, reply, request, normalized, seeding>>

db == <<cloud_accounts, cost_records, performance_records>>

-----------------------------------------------------------------------------
(* Bounds of the model *)

MaxCostRows == 3
MaxPerfRows == 3
MaxRawRecords == 2

-----------------------------------------------------------------------------
(* Python strings *)

\* The characters used, in code-point order (the order of SQLite's BINARY collation).
Ascii ==
    <<" ","-",".","/","0","1","2","3","4","5","6","7","8","9",":","@",
      "A","B","C","D","E","F","G","H","I","J","K","L","M","N","O","P","Q","R",
      "S","T","U","V","W","X","Y","Z","[","]","_",
      "a","b","c","d","e","f","g","h","i","j","k","l","m","n","o","p","q","r",
      "s","t","u","v","w","x","y","z">>

Chars == {Ascii[i] : i \in DOMAIN Ascii}

CharCode == [c \in Chars |-> CHOOSE i \in DOMAIN Ascii : Ascii[i] = c]

UpperCaseLetters == <<"A","B","C","D","E","F","G","H","I","J","K","L","M","N","O","P","Q","R","S","T","U","V","W","X","Y","Z">>

LowerCaseLetters == <<"a","b","c","d","e","f","g","h","i","j","k","l","m","n","o","p","q","r","s","t","u","v","w","x","y","z">>

LowerChar ==
    [c \in Chars |->
        IF \E i \in DOMAIN UpperCaseLetters : UpperCaseLetters[i] = c
        THEN LowerCaseLetters[CHOOSE i \in DOMAIN UpperCaseLetters : UpperCaseLetters[i] = c]
        ELSE c]

\* str.lower()
Lower(s) == [i \in DOMAIN s |-> LowerChar[s[i]]]

\* token in s
Contains(token, s) ==
    \E k \in 0..(Len(s) - Len(token)) :
        \A i \in 1..Len(token) : s[k + i] = token[i]

\* s < t for two strings, by code points
RECURSIVE StrLess(_, _)
StrLess(s, t) ==
    IF t = <<>> THEN FALSE
    ELSE IF s = <<>> THEN TRUE
    ELSE IF s[1] # t[1] THEN CharCode[s[1]] < CharCode[t[1]]
    ELSE StrLess(Tail(s), Tail(t))

Digits == <<"0","1","2","3","4","5","6","7","8","9">>

\* str(n) for an integer n >= 0
RECURSIVE IntToStr(_)
IntToStr(n) ==
    IF n < 10 THEN <<Digits[n + 1]>>
    ELSE IntToStr(n \div 10) \o <<Digits[(n % 10) + 1]>>

-----------------------------------------------------------------------------
(* CloudProviderEnum *)

AWS == "AWS"
AZURE == "AZURE"
GCP == "GCP"

CloudProviderEnum == <<AWS, AZURE, GCP>>

Providers == {CloudProviderEnum[i] : i \in DOMAIN CloudProviderEnum}

\* the enum values as Python strings, for the ordering of an SQL GROUP BY
ProviderText(p) ==
    CASE p = AWS -> <<"A","W","S">>
      [] p = AZURE -> <<"A","Z","U","R","E">>
      [] p = GCP -> <<"G","C","P">>

-----------------------------------------------------------------------------
(* The data the model inserts: the workloads of tests/test_optimization.py *)
(* (Compute in us-east-1 on an AWS and a GCP account) and variations of    *)
(* them.                                                                   *)

Compute == <<"C","o","m","p","u","t","e">>
ComputeLowerCase == <<"c","o","m","p","u","t","e">>
UsEast1 == <<"u","s","-","e","a","s","t","-","1">>
UsEast1UpperCase == <<"U","S","-","E","A","S","T","-","1">>
EuWest1 == <<"e","u","-","w","e","s","t","-","1">>
AwsAccount == <<"a","w","s","-","a","c","c","o","u","n","t">>
GcpAccount == <<"g","c","p","-","a","c","c","o","u","n","t">>
AwsWorkload == <<"a","w","s","-","w","o","r","k","l","o","a","d">>
GcpWorkload == <<"g","c","p","-","w","o","r","k","l","o","a","d">>

\* CloudAccount rows in the order they are created (account_name and tags are
\* read by no query and are left out).
AccountCatalogue ==
    << [provider |-> AWS, account_identifier |-> AwsAccount],
       [provider |-> GCP, account_identifier |-> GcpAccount] >>

\* (account, service, region) of the record rows inserted; a row carries the
\* provider of its account, as convert_cost_records writes it.  Slots 1 to 3
\* fall into one (service, region) group, slot 4 is alone in its group.
WorkloadSlots ==
    << [account |-> 1, service |-> Compute, region |-> UsEast1, resource_id |-> AwsWorkload],
       [account |-> 2, service |-> Compute, region |-> UsEast1, resource_id |-> GcpWorkload],
       [account |-> 1, service |-> ComputeLowerCase, region |-> UsEast1UpperCase, resource_id |-> AwsWorkload],
       [account |-> 2, service |-> Compute, region |-> EuWest1, resource_id |-> GcpWorkload] >>

\* The cost rows inserted: cost_amount in cents, age in days before now.
CostInputs ==
    { [slot |-> 1, cost_amount |-> 20000, age |-> 0],
      [slot |-> 1, cost_amount |-> 20000, age |-> 2],
      [slot |-> 2, cost_amount |-> 12000, age |-> 0],
      [slot |-> 2, cost_amount |-> 20000, age |-> 0],
      [slot |-> 3, cost_amount |-> 12000, age |-> 0],
      [slot |-> 3, cost_amount |-> 20000, age |-> 0],
      [slot |-> 4, cost_amount |-> 12000, age |-> 0] }

\* The performance rows inserted: cpu_utilization in tenths of a point.
PerformanceInputs ==
    { [slot |-> 1, cpu_utilization |-> 650, age |-> 0],
      [slot |-> 1, cpu_utilization |-> 800, age |-> 2],
      [slot |-> 2, cpu_utilization |-> 635, age |-> 0],
      [slot |-> 2, cpu_utilization |-> 800, age |-> 0],
      [slot |-> 3, cpu_utilization |-> 750, age |-> 0],
      [slot |-> 4, cpu_utilization |-> 650, age |-> 0] }

\* time_window_days arguments: <<>> is None, <<n>> the integer n
DaysArguments == {<<1>>}
\* savings_threshold arguments, in thousandths (150 is the default 0.15)
ThresholdArguments == {0, 150}

-----------------------------------------------------------------------------
(* Tables *)

CostRow(account, slot, amount, ts) ==
    [provider |-> account.provider, account_id |-> account.id,
     service |-> slot.service, region |-> slot.region,
     cost_amount |-> amount, timestamp |-> ts]

PerformanceRow(account, slot, cpu, ts) ==
    [provider |-> account.provider, account_id |-> account.id,
     resource_id |-> slot.resource_id,
     service |-> slot.service, region |-> slot.region,
     cpu_utilization |-> cpu, timestamp |-> ts]

\* The reply of a read operation: the operation and its arguments, then the
\* value returned in the field of the operation (the other fields stay empty).
\* Of the call itself: pc is "query" while its queries run, session tells
\* whether the session of SessionLocal() is open or closed, error names the
\* exception the call raised.
NoReply ==
    [op |-> "none", days |-> <<>>, threshold |-> 0,
     suggestions |-> <<>>, scanned |-> <<>>,
     overview |-> <<>>, comparison |-> <<>>,
     pc |-> "idle", session |-> "none", error |-> ""]

NoRequest == [kind |-> "none", provider |-> "", raw_records |-> [type |-> "NoneType"]]

NotNormalized == [status |-> "none", error |-> "", records |-> <<>>]

\* no run of seed_demo_data before the current one committed
NoPreviousRun ==
    [committed |-> FALSE, start |-> 0, end |-> 0, cost_total |-> 0, performance_total |-> 0]

\* seed_demo_data is not running and has not run.  Of a run: its position pc,
\* its arguments, the records fetched, the (provider, account_id) pairs in
\* the order the loop of ensure_cloud_accounts takes them, the ids cached,
\* the three tables as the session's open transaction sees them (pending),
\* whether the session of SessionLocal() is open or closed, and how the run
\* ended.  `before`, `inserted`, `discarded`, `failed_step`
\* and `previous` record the run for the properties: the tables when the
\* run began, the rows it added, the transaction it rolled back, the step
\* that failed and the run that committed just before it.
NotSeeding ==
    [pc |-> "idle", runs |-> 0, start |-> 0, end |-> 0,
     cost_records |-> <<>>, performance_records |-> <<>>,
     required_pairs |-> <<>>, account_cache |-> <<>>,
     pending |-> <<<<>>, EmptyBag, EmptyBag>>,
     before |-> <<<<>>, EmptyBag, EmptyBag>>,
     session |-> "none",
     outcome |-> "none", error |-> "", failed_step |-> "",
     inserted |-> <<EmptyBag, EmptyBag>>,
     discarded |-> <<<<>>, EmptyBag, EmptyBag>>,
     previous |-> NoPreviousRun]

\* session.add(CloudAccount(...)); session.commit().  account_identifier is
\* unique; the primary key is the next integer.
AddAccount ==
    /\ Len(cloud_accounts) < Len(AccountCatalogue)
    /\ LET a == AccountCatalogue[Len(cloud_accounts) + 1] IN
        /\ \A i \in DOMAIN cloud_accounts :
              cloud_accounts[i].account_identifier # a.account_identifier
        /\ cloud_accounts' = Append(cloud_accounts,
              [id |-> Len(cloud_accounts) + 1, provider |-> a.provider,
               account_identifier |-> a.account_identifier])
    /\ reply' = NoReply
    /\ UNCHANGED <<now, cost_records, performance_records, request, normalized, seeding>>

\* session.add(CostRecordDB(...)); session.commit()
InsertCost ==
    /\ BagCardinality(cost_records) < MaxCostRows
    /\ \E in \in CostInputs :
        LET slot == WorkloadSlots[in.slot] IN
        /\ slot.account \in DOMAIN cloud_accounts
        /\ cost_records' = cost_records (+)
              SetToBag({CostRow(cloud_accounts[slot.account], slot, in.cost_amount, now - in.age)})
    /\ reply' = NoReply
    /\ UNCHANGED <<now, cloud_accounts, performance_records, request, normalized, seeding>>

\* session.add(PerformanceRecordDB(...)); session.commit()
InsertPerformance ==
    /\ BagCardinality(performance_records) < MaxPerfRows
    /\ \E in \in PerformanceInputs :
        LET slot == WorkloadSlots[in.slot] IN
        /\ slot.account \in DOMAIN cloud_accounts
        /\ performance_records' = performance_records (+)
              SetToBag({PerformanceRow(cloud_accounts[slot.account], slot, in.cpu_utilization, now - in.age)})
    /\ reply' = NoReply
    /\ UNCHANGED <<now, cloud_accounts, cost_records, request, normalized, seeding>>

-----------------------------------------------------------------------------
(* optimization_service.py *)

\* int(days or 0)
DaysOrZero(days) == IF days = <<>> THEN 0 ELSE days[1]

\* Python's max
Max(a, b) == IF a >= b THEN a ELSE b

\* _window_start without max(..., 1): utcnow() - timedelta(days=int(days or 0))
WindowStartUnclamped(days) == now - DaysOrZero(days)

\* _window_start
WindowStart(days) == now - Max(DaysOrZero(days), 1)

\* The GROUP BY columns of both workload queries
WorkloadKey(r) == <<r.provider, r.account_id, r.service, r.region>>

\* SQLite emits the groups of a GROUP BY in the order of its sorter: by the
\* GROUP BY columns, text under the BINARY collation.
KeyLess(k1, k2) ==
    IF k1[1] # k2[1] THEN StrLess(ProviderText(k1[1]), ProviderText(k2[1]))
    ELSE IF k1[2] # k2[2] THEN k1[2] < k2[2]
    ELSE IF k1[3] # k2[3] THEN StrLess(k1[3], k2[3])
    ELSE StrLess(k1[4], k2[4])

RECURSIVE SortKeys(_)
SortKeys(keys) ==
    IF keys = {} THEN <<>>
    ELSE LET first == CHOOSE k \in keys : \A other \in keys \ {k} : KeyLess(k, other)
         IN  <<first>> \o SortKeys(keys \ {first})

\* .filter(timestamp >= window_start) of a table, as the set of distinct rows
InWindow(table, window_start) ==
    {r \in BagToSet(table) : r.timestamp >= window_start}

\* func.sum(CostRecordDB.cost_amount) over the rows of one group
RECURSIVE SumCost(_)
SumCost(rows) ==
    IF rows = {} THEN 0
    ELSE LET r == CHOOSE x \in rows : TRUE
         IN  CopiesIn(r, cost_records) * r.cost_amount + SumCost(rows \ {r})

RECURSIVE SumCpu(_)
SumCpu(rows) ==
    IF rows = {} THEN 0
    ELSE LET r == CHOOSE x \in rows : TRUE
         IN  CopiesIn(r, performance_records) * r.cpu_utilization + SumCpu(rows \ {r})

RECURSIVE CountRows(_)
CountRows(rows) ==
    IF rows = {} THEN 0
    ELSE LET r == CHOOSE x \in rows : TRUE
         IN  CopiesIn(r, performance_records) + CountRows(rows \ {r})

\* a float that may be None: avg_cpu is the fraction num/den
NoneCpu == [known |-> FALSE, num |-> 0, den |-> 1]

\* the cost query of _collect_workloads: one row per group
CostQuery(window_start) ==
    LET rows == InWindow(cost_records, window_start)
        keys == SortKeys({WorkloadKey(r) : r \in rows})
    IN  [i \in DOMAIN keys |->
            [key |-> keys[i],
             total_cost |-> SumCost({r \in rows : WorkloadKey(r) = keys[i]})]]

\* the performance query of _collect_workloads: func.avg(cpu_utilization)
PerformanceQuery(window_start) ==
    LET rows == InWindow(performance_records, window_start)
        keys == SortKeys({WorkloadKey(r) : r \in rows})
    IN  [i \in DOMAIN keys |->
            LET group == {r \in rows : WorkloadKey(r) = keys[i]}
            IN  [key |-> keys[i],
                 avg_cpu |-> [known |-> TRUE, num |-> SumCpu(group), den |-> CountRows(group)]]]

\* _lookup_accounts followed by account_lookup.get(id, str(id))
AccountIdentifier(account_id) ==
    IF account_id \in DOMAIN cloud_accounts
    THEN cloud_accounts[account_id].account_identifier
    ELSE IntToStr(account_id)

\* f"{account_identifier}:{service}@{region}"
WorkloadId(account_id, service, region) ==
    AccountIdentifier(account_id) \o <<":">> \o service \o <<"@">> \o region

Workload(key, total_cost, avg_cpu) ==
    [provider |-> key[1], account_id |-> key[2], service |-> key[3], region |-> key[4],
     total_cost |-> total_cost, avg_cpu |-> avg_cpu,
     workload_id |-> WorkloadId(key[2], key[3], key[4])]

\* workload_map.setdefault(key, {...})["avg_cpu"] = avg over the performance rows
RECURSIVE MergePerformance(_, _)
MergePerformance(workloads, perf_rows) ==
    IF perf_rows = <<>> THEN workloads
    ELSE LET row == Head(perf_rows)
             hit == {i \in DOMAIN workloads : WorkloadKey(workloads[i]) = row.key}
             merged ==
                 IF hit = {}
                 THEN Append(workloads, Workload(row.key, 0, row.avg_cpu))
                 ELSE [i \in DOMAIN workloads |->
                          IF i \in hit
                          THEN [workloads[i] EXCEPT !.avg_cpu = row.avg_cpu]
                          ELSE workloads[i]]
         IN  MergePerformance(merged, Tail(perf_rows))

\* _collect_workloads: list(workload_map.values()), in insertion order
CollectWorkloads(window_start) ==
    LET cost_rows == CostQuery(window_start)
        from_cost == [i \in DOMAIN cost_rows |->
                         Workload(cost_rows[i].key, cost_rows[i].total_cost, NoneCpu)]
    IN  MergePerformance(from_cost, PerformanceQuery(window_start))

-----------------------------------------------------------------------------
(* get_optimization_suggestions *)

\* the CPU tolerance 10.0 of line 244, in tenths of a point
CpuTolerance == 100

Abs(x) == IF x < 0 THEN -x ELSE x

\* service_key = (workload["service"].lower(), workload["region"].lower())
ServiceKey(workload) == <<Lower(workload.service), Lower(workload.region)>>

\* the keys of `groups`, a dict, in insertion order
RECURSIVE GroupKeys(_, _)
GroupKeys(workloads, seen) ==
    IF workloads = <<>> THEN <<>>
    ELSE LET key == ServiceKey(Head(workloads))
         IN  IF key \in seen
             THEN GroupKeys(Tail(workloads), seen)
             ELSE <<key>> \o GroupKeys(Tail(workloads), seen \cup {key})

\* groups[service_key]
GroupEntries(workloads, key) ==
    LET Member(w) == ServiceKey(w) = key
    IN  SelectSeq(workloads, Member)

\* GroupIsScanned without the test of line 226
GroupIsScannedAlways(entries) == TRUE

\* if len(entries) < 2: continue
GroupIsScanned(entries) == Len(entries) >= 2

\* Comparable with "not current_cpu" for "current_cpu is None": an average
\* of 0.0 is skipped like None
ComparableWithCpu(workload) ==
    workload.total_cost > 0 /\ workload.avg_cpu.known /\ workload.avg_cpu.num # 0

\* if current_cost <= 0.0 or current_cpu is None: continue   (also for the candidate)
Comparable(workload) == workload.total_cost > 0 /\ workload.avg_cpu.known

\* if candidate is current: continue   (i, j: positions in entries)
IsCurrent(i, j) == i = j

\* CpuTooFar without the test of line 244
CpuTooFarNever(alt_cpu, current_cpu) == FALSE

\* abs(alt_cpu - current_cpu) > 10.0, on the fractions num/den
CpuTooFar(alt_cpu, current_cpu) ==
    Abs(alt_cpu.num * current_cpu.den - current_cpu.num * alt_cpu.den)
        > CpuTolerance * alt_cpu.den * current_cpu.den

\* SavingsReachThreshold with > for >=
SavingsExceedThreshold(current_cost, alt_cost, threshold) ==
    (current_cost - alt_cost) * 1000 > threshold * current_cost

\* line 247 with abs(current_cost - alt_cost) / current_cost in place of the
\* savings of line 246
SavingsReachThresholdEitherWay(current_cost, alt_cost, threshold) ==
    Abs(current_cost - alt_cost) * 1000 >= threshold * current_cost

\* savings >= savings_threshold, for savings = (current_cost - alt_cost) / current_cost
\* and the threshold in thousandths
SavingsReachThreshold(current_cost, alt_cost, threshold) ==
    (current_cost - alt_cost) * 1000 >= threshold * current_cost

\* line 247 with alt_cost <= best_alternative["total_cost"]: a later
\* candidate of equal cost replaces the one found before
ImprovesOnEqualCost(entries, best, alt_cost) ==
    ~best.found \/ alt_cost <= entries[best.index].total_cost

\* best_alternative is None or alt_cost < best_alternative["total_cost"]
Improves(entries, best, alt_cost) ==
    ~best.found \/ alt_cost < entries[best.index].total_cost

\* Select that keeps the best_savings of an alternative it replaces
SelectKeepingSavings(best, j, current_cost, alt_cost) ==
    IF best.found
    THEN [best EXCEPT !.index = j]
    ELSE [found |-> TRUE, index |-> j, savings_num |-> current_cost - alt_cost, savings_den |-> current_cost]

\* best_alternative = candidate; best_savings = savings
Select(best, j, current_cost, alt_cost) ==
    [found |-> TRUE, index |-> j, savings_num |-> current_cost - alt_cost, savings_den |-> current_cost]

\* best_alternative = None; best_savings = 0.0
NoAlternative == [found |-> FALSE, index |-> 0, savings_num |-> 0, savings_den |-> 1]

\* one pass of the loop "for candidate in entries" (lines 236-249)
RECURSIVE ScanCandidates(_, _, _, _, _)
ScanCandidates(entries, i, j, threshold, best) ==
    IF j > Len(entries) THEN best
    ELSE LET current == entries[i]
             candidate == entries[j]
             next ==
                 IF IsCurrent(i, j) THEN best
                 ELSE IF ~Comparable(candidate) THEN best
                 ELSE IF CpuTooFar(candidate.avg_cpu, current.avg_cpu) THEN best
                 ELSE IF /\ SavingsReachThreshold(current.total_cost, candidate.total_cost, threshold)
                         /\ Improves(entries, best, candidate.total_cost)
                      THEN Select(best, j, current.total_cost, candidate.total_cost)
                      ELSE best
         IN  ScanCandidates(entries, i, j + 1, threshold, next)

\* round(best_savings * 100, 2), in hundredths of a percent (ties to even)
RoundPercent(num, den) ==
    LET scaled == num * 10000
        q == scaled \div den
        r == scaled % den
    IN  IF 2 * r > den \/ (2 * r = den /\ q % 2 = 1) THEN q + 1 ELSE q

\* the dict appended to suggestions (lines 254-267).  `source` and `target`
\* are the dicts `current` and `best_alternative` it is built from; the
\* explanation text repeats their figures and is left out.
Suggestion(current, best_alternative, best) ==
    [workload_id |-> current.workload_id,
     current_provider |-> current.provider,
     recommended_provider |-> best_alternative.provider,
     estimated_savings_percent |-> RoundPercent(best.savings_num, best.savings_den),
     source |-> current,
     target |-> best_alternative]

\* the loop "for current in entries" (lines 228-267) from position i on
RECURSIVE ScanEntries(_, _, _)
ScanEntries(entries, i, threshold) ==
    IF i > Len(entries) THEN <<>>
    ELSE LET current == entries[i]
             best == ScanCandidates(entries, i, 1, threshold, NoAlternative)
             emitted ==
                 IF Comparable(current) /\ best.found
                 THEN <<Suggestion(current, entries[best.index], best)>>
                 ELSE <<>>
         IN  emitted \o ScanEntries(entries, i + 1, threshold)

\* the loop "for entries in groups.values()" (lines 225-267)
RECURSIVE ScanGroups(_, _, _)
ScanGroups(workloads, keys, threshold) ==
    IF keys = <<>> THEN <<>>
    ELSE LET entries == GroupEntries(workloads, Head(keys))
         IN  (IF GroupIsScanned(entries) THEN ScanEntries(entries, 1, threshold) ELSE <<>>)
                 \o ScanGroups(workloads, Tail(keys), threshold)

\* the groups whose entries the loop of line 228 runs over
ScannedGroups(workloads) ==
    LET keys == GroupKeys(workloads, {})
        Scanned(key) == GroupIsScanned(GroupEntries(workloads, key))
    IN  SelectSeq(keys, Scanned)

\* Suggestions with `suggestions` kept from one call to the next instead of
\* starting from [] (line 224)
SuggestionsAccumulated(days, threshold) ==
    LET workloads == CollectWorkloads(WindowStart(days))
    IN  reply.suggestions \o
            (IF workloads = <<>> THEN <<>>
             ELSE ScanGroups(workloads, GroupKeys(workloads, {}), threshold))

\* the list get_optimization_suggestions returns
Suggestions(days, threshold) ==
    LET workloads == CollectWorkloads(WindowStart(days))
    IN  IF workloads = <<>> THEN <<>>
        ELSE ScanGroups(workloads, GroupKeys(workloads, {}), threshold)

\* session.close() as a statement after the try block instead of its
\* finally clause: an exception of the block passes it by
CloseAfterTry(session, path) == IF path = "raised" THEN session ELSE "closed"

\* finally: session.close(), on the path by which the try block is left:
\* "returned", "early" (return [] for no workloads) or "raised"
Finally(session, path) == "closed"

\* GET /recommendations: get_optimization_suggestions(days, savings_threshold).
\* The session only reads; it is closed before the call returns.
OptimizationSuggestionsCall(days, threshold) ==
    /\ reply' = [NoReply EXCEPT
                 !.op = "recommendations", !.days = days, !.threshold = threshold,
                 !.session = Finally("open", "returned"),
                 !.suggestions = Suggestions(days, threshold),
                 !.scanned = ScannedGroups(CollectWorkloads(WindowStart(days)))]
    /\ UNCHANGED <<now, cloud_accounts, cost_records, performance_records, request, normalized, seeding>>

GetOptimizationSuggestions ==
    \E days \in DaysArguments, threshold \in ThresholdArguments :
        OptimizationSuggestionsCall(days, threshold)

-----------------------------------------------------------------------------
(* get_overview_summary and get_comparison_summary *)

\* .limit(5) of the top-services query
TopServicesLimit == 5

\* _cost_totals_by_provider without the zero-fill of line 33: only the
\* providers of the rows the query returns
CostTotalsByProviderOfRowsOnly(window_start) ==
    LET rows == InWindow(cost_records, window_start)
    IN  [p \in {r.provider : r \in rows} |-> SumCost({r \in rows : r.provider = p})]

\* _cost_totals_by_provider: 0.0 for every provider of the enum, then the sum
\* of each provider that has rows in the window
CostTotalsByProvider(window_start) ==
    LET rows == InWindow(cost_records, window_start)
    IN  [p \in Providers \cup {r.provider : r \in rows} |->
            SumCost({r \in rows : r.provider = p})]

\* GROUP BY provider, service: the groups in the order of the sorter
ServiceKeyLess(k1, k2) ==
    IF k1[1] # k2[1] THEN StrLess(ProviderText(k1[1]), ProviderText(k2[1]))
    ELSE StrLess(k1[2], k2[2])

RECURSIVE SortServiceKeys(_)
SortServiceKeys(keys) ==
    IF keys = {} THEN <<>>
    ELSE LET first == CHOOSE k \in keys : \A other \in keys \ {k} : ServiceKeyLess(k, other)
         IN  <<first>> \o SortServiceKeys(keys \ {first})

\* ORDER BY sum(cost_amount) DESC: SQLite's sorter keeps rows of equal sum in
\* the order they arrive in
RECURSIVE InsertByCost(_, _)
InsertByCost(sorted, row) ==
    IF sorted = <<>> THEN <<row>>
    ELSE IF Head(sorted).total_cost >= row.total_cost
         THEN <<Head(sorted)>> \o InsertByCost(Tail(sorted), row)
         ELSE <<row>> \o sorted

RECURSIVE OrderByCostDesc(_, _)
OrderByCostDesc(rows, sorted) ==
    IF rows = <<>> THEN sorted
    ELSE OrderByCostDesc(Tail(rows), InsertByCost(sorted, Head(rows)))

\* the top-services query without .limit(5) (line 57)
TopServicesUnlimited(window_start) ==
    LET rows == InWindow(cost_records, window_start)
        keys == SortServiceKeys({<<r.provider, r.service>> : r \in rows})
        groups == [i \in DOMAIN keys |->
                      [provider |-> keys[i][1], service |-> keys[i][2],
                       total_cost |-> SumCost({r \in rows :
                                          <<r.provider, r.service>> = keys[i]})]]
    IN  OrderByCostDesc(groups, <<>>)

\* the top-services query of get_overview_summary (lines 48-67)
TopServices(window_start) ==
    LET rows == InWindow(cost_records, window_start)
        keys == SortServiceKeys({<<r.provider, r.service>> : r \in rows})
        groups == [i \in DOMAIN keys |->
                      [provider |-> keys[i][1], service |-> keys[i][2],
                       total_cost |-> SumCost({r \in rows :
                                          <<r.provider, r.service>> = keys[i]})]]
        ordered == OrderByCostDesc(groups, <<>>)
    IN  SubSeq(ordered, 1, IF Len(ordered) < TopServicesLimit THEN Len(ordered) ELSE TopServicesLimit)

\* the dict get_overview_summary returns
OverviewSummary(days) ==
    [time_window_days |-> Max(DaysOrZero(days), 1),
     total_cost_per_provider |-> CostTotalsByProvider(WindowStart(days)),
     top_services |-> TopServices(WindowStart(days))]

\* func.count(func.distinct(PerformanceRecordDB.resource_id))
DistinctResources(rows) == Cardinality({r.resource_id : r \in rows})

\* one entry of the comparison with count(resource_id) in place of
\* count(distinct resource_id) (line 109)
ComparisonEntryCountingRows(provider, window_start) ==
    LET cost_rows == {r \in InWindow(cost_records, window_start) : r.provider = provider}
        perf_rows == {r \in InWindow(performance_records, window_start) : r.provider = provider}
    IN  [provider |-> provider,
         total_cost |-> SumCost(cost_rows),
         avg_cpu_utilization |->
             IF perf_rows = {} THEN NoneCpu
             ELSE [known |-> TRUE, num |-> SumCpu(perf_rows), den |-> CountRows(perf_rows)],
         workload_count |-> CountRows(perf_rows)]

\* one entry of the list get_comparison_summary returns
ComparisonEntry(provider, window_start) ==
    LET cost_rows == {r \in InWindow(cost_records, window_start) : r.provider = provider}
        perf_rows == {r \in InWindow(performance_records, window_start) : r.provider = provider}
    IN  [provider |-> provider,
         total_cost |-> SumCost(cost_rows),
         avg_cpu_utilization |->
             IF perf_rows = {} THEN NoneCpu
             ELSE [known |-> TRUE, num |-> SumCpu(perf_rows), den |-> CountRows(perf_rows)],
         workload_count |-> DistinctResources(perf_rows)]

\* list(comparison.values()): one entry per provider of the enum, in its order
ComparisonSummary(days) ==
    [i \in DOMAIN CloudProviderEnum |-> ComparisonEntry(CloudProviderEnum[i], WindowStart(days))]

\* GET /summary/overview: get_overview_summary(days)
OverviewSummaryCall(days) ==
    /\ reply' = [NoReply EXCEPT
                 !.op = "overview", !.days = days,
                 !.session = Finally("open", "returned"),
                 !.overview = <<OverviewSummary(days)>>]
    /\ UNCHANGED <<now, cloud_accounts, cost_records, performance_records, request, normalized, seeding>>

GetOverviewSummary == \E days \in DaysArguments : OverviewSummaryCall(days)

\* GET /summary/comparison: get_comparison_summary(days)
ComparisonSummaryCall(days) ==
    /\ reply' = [NoReply EXCEPT
                 !.op = "comparison", !.days = days,
                 !.session = Finally("open", "returned"),
                 !.comparison = ComparisonSummary(days)]
    /\ UNCHANGED <<now, cloud_accounts, cost_records, performance_records, request, normalized, seeding>>

GetComparisonSummary == \E days \in DaysArguments : ComparisonSummaryCall(days)

-----------------------------------------------------------------------------
(* normalization_service: the values of a raw record and the _safe_* helpers *)

\* Python values.  A float or an int that float() converts carries its value
\* in hundredths; TooLargeInt is an int beyond the range of a float (10**400).
None == [type |-> "NoneType"]
FloatValue(n) == [type |-> "float", number |-> n]
IntValue(n) == [type |-> "int", number |-> n * 100]
TooLargeInt == [type |-> "int", exceeds_float |-> TRUE]
StrValue(s) == [type |-> "str", text |-> s]
ListValue(items) == [type |-> "list", items |-> items]
EmptyList == ListValue(<<>>)
Datetime(day) == [type |-> "datetime", day |-> day]

\* dict.get(key): None for a key the dict does not hold
Get(record, key) == IF key \in DOMAIN record THEN record[key] ELSE None

\* what a call comes to: a value returned, or an exception raised
Returned(v) == [raised |-> "", value |-> v]
Raised(exception) == [raised |-> exception, value |-> 0]

\* str.strip(), for the blank
RECURSIVE LStrip(_)
LStrip(s) == IF s # <<>> /\ Head(s) = " " THEN LStrip(Tail(s)) ELSE s

RECURSIVE RStrip(_)
RStrip(s) == IF s # <<>> /\ s[Len(s)] = " " THEN RStrip(SubSeq(s, 1, Len(s) - 1)) ELSE s

Strip(s) == RStrip(LStrip(s))

IsDigit(c) == \E i \in DOMAIN Digits : Digits[i] = c

DigitValue(c) == (CHOOSE i \in DOMAIN Digits : Digits[i] = c) - 1

\* int(s) for a string of digits ("" counts 0)
RECURSIVE DigitsValue(_)
DigitsValue(s) ==
    IF s = <<>> THEN 0
    ELSE DigitsValue(SubSeq(s, 1, Len(s) - 1)) * 10 + DigitValue(s[Len(s)])

\* float(s) for a str: blanks stripped, an optional "-", digits with at most
\* one ".", at least one digit; anything else is a ValueError.  The value is
\* in hundredths, so the strings converted carry at most two decimals.
ParseFloat(s) ==
    LET t == Strip(s)
        negative == t # <<>> /\ Head(t) = "-"
        body == IF negative THEN Tail(t) ELSE t
        dots == {i \in DOMAIN body : body[i] = "."}
        valid == /\ \A i \in DOMAIN body : IsDigit(body[i]) \/ body[i] = "."
                 /\ Cardinality(dots) <= 1
                 /\ \E i \in DOMAIN body : IsDigit(body[i])
        point == IF dots = {} THEN Len(body) + 1 ELSE CHOOSE i \in dots : TRUE
        whole == SubSeq(body, 1, point - 1)
        decimals == SubSeq(body, point + 1, Len(body))
        hundredths == IF Len(decimals) = 0 THEN 0
                      ELSE IF Len(decimals) = 1 THEN DigitValue(decimals[1]) * 10
                      ELSE DigitsValue(SubSeq(decimals, 1, 2))
        magnitude == DigitsValue(whole) * 100 + hundredths
    IN  IF valid THEN Returned(IF negative THEN 0 - magnitude ELSE magnitude)
        ELSE Raised("ValueError")

\* float(value)
ToFloat(value) ==
    CASE value.type = "float" -> Returned(value.number)
      [] value.type = "int" ->
            IF "exceeds_float" \in DOMAIN value THEN Raised("OverflowError")
            ELSE Returned(value.number)
      [] value.type = "str" -> ParseFloat(value.text)
      [] OTHER -> Raised("TypeError")

\* _safe_float with a handler that lets a ValueError through
SafeFloatCatchingTypeError(value, default) ==
    LET converted == ToFloat(value)
    IN  IF converted.raised = "TypeError" THEN Returned(default) ELSE converted

\* _safe_float: TypeError and ValueError give the default, any other
\* exception of float() propagates
SafeFloat(value, default) ==
    LET converted == ToFloat(value)
    IN  IF converted.raised \in {"TypeError", "ValueError"} THEN Returned(default)
        ELSE converted

\* repr of a float given in hundredths: "12.5", "12.0", "-0.25"
FloatToStr(n) ==
    LET magnitude == IF n < 0 THEN 0 - n ELSE n
        whole == IntToStr(magnitude \div 100)
        hundredths == magnitude % 100
        decimals == IF hundredths % 10 = 0 THEN <<Digits[(hundredths \div 10) + 1]>>
                    ELSE <<Digits[(hundredths \div 10) + 1], Digits[(hundredths % 10) + 1]>>
    IN  (IF n < 0 THEN <<"-">> ELSE <<>>) \o whole \o <<".">> \o decimals

\* str(value), for the values a string field is given
ToStr(value) ==
    CASE value.type = "str" -> value.text
      [] value.type = "float" -> FloatToStr(value.number)
      [] value.type = "int" /\ "number" \in DOMAIN value ->
            (IF value.number < 0 THEN <<"-">> ELSE <<>>)
                \o IntToStr((IF value.number < 0 THEN 0 - value.number ELSE value.number) \div 100)
      [] value.type = "list" -> <<"[", "]">>

\* _safe_str
SafeStr(value, default) == IF value = None THEN default ELSE ToStr(value)

\* days before each month of 2024, the year of the dates the model parses
MonthStart == <<0, 31, 60, 91, 121, 152, 182, 213, 244, 274, 305, 335, 366>>

\* datetime.fromisoformat(s) for a date "2024-MM-DD", in days since
\* 2024-01-01; any other string the model uses is a ValueError
FromIsoFormat(s) ==
    IF /\ Len(s) = 10
       /\ SubSeq(s, 1, 5) = <<"2","0","2","4","-">> /\ s[8] = "-"
       /\ \A i \in {6, 7, 9, 10} : IsDigit(s[i])
       /\ DigitsValue(SubSeq(s, 6, 7)) \in 1..12
       /\ DigitsValue(SubSeq(s, 9, 10)) >= 1
       /\ DigitsValue(SubSeq(s, 9, 10)) <=
              MonthStart[DigitsValue(SubSeq(s, 6, 7)) + 1] - MonthStart[DigitsValue(SubSeq(s, 6, 7))]
    THEN Returned(MonthStart[DigitsValue(SubSeq(s, 6, 7))] + DigitsValue(SubSeq(s, 9, 10)) - 1)
    ELSE Raised("ValueError")

\* _safe_timestamp
SafeTimestamp(value) ==
    IF value.type = "datetime" THEN value.day
    ELSE IF value.type = "str" /\ FromIsoFormat(value.text).raised = ""
         THEN FromIsoFormat(value.text).value
         ELSE now

\* _resource_hint
RECURSIVE ResourceHint(_)
ResourceHint(candidates) ==
    IF candidates = <<>> THEN <<"r","e","s","o","u","r","c","e">>
    ELSE IF Head(candidates) = None THEN ResourceHint(Tail(candidates))
    ELSE IF Strip(ToStr(Head(candidates))) # <<>> THEN Strip(ToStr(Head(candidates)))
    ELSE ResourceHint(Tail(candidates))

-----------------------------------------------------------------------------
(* normalization_service: the normalizers *)

\* _DEFAULT_ACCOUNTS
DefaultAccounts(provider) ==
    CASE provider = AWS -> <<"a","w","s","-","d","e","f","a","u","l","t","-","a","c","c","o","u","n","t">>
      [] provider = AZURE -> <<"s","u","b","s","c","r","i","p","t","i","o","n","s","/","d","e","f","a","u","l","t">>
      [] provider = GCP -> <<"p","r","o","j","e","c","t","s","/","d","e","f","a","u","l","t">>

\* _metric_to_performance_fields that fills the memory or network slot and
\* leaves the value in the cpu slot as well
MetricToPerformanceFieldsKeepingCpu(metric_name, value) ==
    LET metric_lower == Lower(metric_name)
    IN  IF Contains(<<"c","p","u">>, metric_lower) THEN <<value, 0, 0>>
        ELSE IF \E token \in {<<"m","e","m","o","r","y">>, <<"s","t","o","r","a","g","e">>, <<"d","t","u">>, <<"s","l","o","t">>} : Contains(token, metric_lower)
        THEN <<value, value, 0>>
        ELSE IF \E token \in {<<"l","a","t","e","n","c","y">>, <<"n","e","t","w","o","r","k">>, <<"i","o">>, <<"t","h","r","o","u","g","h","p","u","t">>} : Contains(token, metric_lower)
        THEN <<value, 0, value>>
        ELSE <<value, 0, 0>>

\* _metric_to_performance_fields with the token lists tried before "cpu"
MetricToPerformanceFieldsTokensFirst(metric_name, value) ==
    LET metric_lower == Lower(metric_name)
    IN  IF \E token \in {<<"m","e","m","o","r","y">>, <<"s","t","o","r","a","g","e">>, <<"d","t","u">>, <<"s","l","o","t">>} : Contains(token, metric_lower)
        THEN <<0, value, 0>>
        ELSE IF \E token \in {<<"l","a","t","e","n","c","y">>, <<"n","e","t","w","o","r","k">>, <<"i","o">>, <<"t","h","r","o","u","g","h","p","u","t">>} : Contains(token, metric_lower)
        THEN <<0, 0, value>>
        ELSE <<value, 0, 0>>

\* _metric_to_performance_fields with the network tokens tried before the
\* memory tokens
MetricToPerformanceFieldsNetworkFirst(metric_name, value) ==
    LET metric_lower == Lower(metric_name)
    IN  IF Contains(<<"c","p","u">>, metric_lower) THEN <<value, 0, 0>>
        ELSE IF \E token \in {<<"l","a","t","e","n","c","y">>, <<"n","e","t","w","o","r","k">>, <<"i","o">>, <<"t","h","r","o","u","g","h","p","u","t">>} : Contains(token, metric_lower)
        THEN <<0, 0, value>>
        ELSE IF \E token \in {<<"m","e","m","o","r","y">>, <<"s","t","o","r","a","g","e">>, <<"d","t","u">>, <<"s","l","o","t">>} : Contains(token, metric_lower)
        THEN <<0, value, 0>>
        ELSE <<value, 0, 0>>

\* _metric_to_performance_fields: (cpu, memory, network)
MetricToPerformanceFields(metric_name, value) ==
    LET metric_lower == Lower(metric_name)
    IN  IF Contains(<<"c","p","u">>, metric_lower) THEN <<value, 0, 0>>
        ELSE IF \E token \in {<<"m","e","m","o","r","y">>, <<"s","t","o","r","a","g","e">>, <<"d","t","u">>, <<"s","l","o","t">>} : Contains(token, metric_lower)
        THEN <<0, value, 0>>
        ELSE IF \E token \in {<<"l","a","t","e","n","c","y">>, <<"n","e","t","w","o","r","k">>, <<"i","o">>, <<"t","h","r","o","u","g","h","p","u","t">>} : Contains(token, metric_lower)
        THEN <<0, 0, value>>
        ELSE <<value, 0, 0>>

\* CostRecord(...): the arguments are evaluated in the order written, and the
\* first one that raises ends the call
CostRecord(provider, account_id, service, region, usage_amount, usage_unit, cost_amount, currency, timestamp) ==
    IF usage_amount.raised # "" THEN Raised(usage_amount.raised)
    ELSE IF cost_amount.raised # "" THEN Raised(cost_amount.raised)
    ELSE Returned([provider |-> provider, account_id |-> account_id,
                   service |-> service, region |-> region,
                   usage_amount |-> usage_amount.value, usage_unit |-> usage_unit,
                   cost_amount |-> cost_amount.value, currency |-> currency,
                   timestamp |-> timestamp])

\* _normalize_aws_cost
NormalizeAwsCost(provider, record) ==
    CostRecord(provider,
               DefaultAccounts(provider),
               SafeStr(Get(record, "service"), <<"A","m","a","z","o","n","S","e","r","v","i","c","e">>),
               SafeStr(Get(record, "region"), <<"g","l","o","b","a","l">>),
               SafeFloat(Get(record, "usage_amount"), 0),
               SafeStr(Get(record, "usage_type"), <<"U","n","i","t","s">>),
               SafeFloat(Get(record, "cost"), 0),
               SafeStr(Get(record, "currency"), <<"U","S","D">>),
               SafeTimestamp(Get(record, "timestamp")))

\* _normalize_azure_cost
NormalizeAzureCost(provider, record) ==
    CostRecord(provider,
               SafeStr(Get(record, "resourceGroup"), DefaultAccounts(provider)),
               SafeStr(Get(record, "meterCategory"), <<"A","z","u","r","e","S","e","r","v","i","c","e">>),
               SafeStr(Get(record, "meterRegion"), <<"g","l","o","b","a","l">>),
               SafeFloat(Get(record, "quantity"), 0),
               SafeStr(Get(record, "unit"), <<"U","n","i","t","s">>),
               SafeFloat(Get(record, "cost"), 0),
               SafeStr(Get(record, "currency"), <<"U","S","D">>),
               SafeTimestamp(Get(record, "timestamp")))

\* _normalize_gcp_cost
NormalizeGcpCost(provider, record) ==
    CostRecord(provider,
               SafeStr(Get(record, "project"), DefaultAccounts(provider)),
               SafeStr(Get(record, "sku"), <<"G","C","P","S","e","r","v","i","c","e">>),
               SafeStr(Get(record, "location"), <<"g","l","o","b","a","l">>),
               SafeFloat(Get(record, "usage"), 0),
               SafeStr(Get(record, "usage_unit"), <<"U","n","i","t","s">>),
               SafeFloat(Get(record, "cost"), 0),
               SafeStr(Get(record, "currency"), <<"U","S","D">>),
               SafeTimestamp(Get(record, "timestamp")))

\* PerformanceRecord(...) over the triple of _metric_to_performance_fields;
\* the value handed to it is converted first and may raise
PerformanceRecord(provider, account_id, resource_id, service, region, metric_name, value, timestamp) ==
    IF value.raised # "" THEN Raised(value.raised)
    ELSE LET fields == MetricToPerformanceFields(metric_name, value.value)
         IN  Returned([provider |-> provider, account_id |-> account_id,
                       resource_id |-> resource_id,
                       service |-> service, region |-> region,
                       cpu_utilization |-> fields[1],
                       memory_utilization |-> fields[2],
                       network_io |-> fields[3],
                       timestamp |-> timestamp])

\* _normalize_aws_performance
NormalizeAwsPerformance(provider, record) ==
    PerformanceRecord(provider,
        DefaultAccounts(provider),
        ResourceHint(<<Get(record, "instance_type"), Get(record, "bucket_class"),
                       Get(record, "engine"), Get(record, "service")>>),
        SafeStr(Get(record, "service"), <<"A","m","a","z","o","n","S","e","r","v","i","c","e">>),
        SafeStr(Get(record, "region"), <<"g","l","o","b","a","l">>),
        SafeStr(Get(record, "metric"), <<>>),
        SafeFloat(Get(record, "value"), 0),
        SafeTimestamp(Get(record, "timestamp")))

\* _normalize_azure_performance
NormalizeAzurePerformance(provider, record) ==
    PerformanceRecord(provider,
        DefaultAccounts(provider),
        ResourceHint(<<Get(record, "vmSize"), Get(record, "accountType"),
                       Get(record, "tier")>>),
        SafeStr(Get(record, "resourceType"), <<"A","z","u","r","e","R","e","s","o","u","r","c","e">>),
        SafeStr(Get(record, "meterRegion"), <<"g","l","o","b","a","l">>),
        SafeStr(Get(record, "metricName"), <<>>),
        SafeFloat(Get(record, "average"), 0),
        SafeTimestamp(Get(record, "timestamp")))

\* _normalize_gcp_performance
NormalizeGcpPerformance(provider, record) ==
    PerformanceRecord(provider,
        DefaultAccounts(provider),
        ResourceHint(<<Get(record, "machine_type"), Get(record, "storage_class"),
                       Get(record, "reservation")>>),
        SafeStr(Get(record, "service"), <<"G","C","P","S","e","r","v","i","c","e">>),
        SafeStr(Get(record, "location"), <<"g","l","o","b","a","l">>),
        SafeStr(Get(record, "metric"), <<>>),
        SafeFloat(Get(record, "value"), 0),
        SafeTimestamp(Get(record, "timestamp")))

\* _COST_NORMALIZERS[provider](provider, record)
CostNormalizers(provider, record) ==
    CASE provider = AWS -> NormalizeAwsCost(provider, record)
      [] provider = AZURE -> NormalizeAzureCost(provider, record)
      [] provider = GCP -> NormalizeGcpCost(provider, record)

\* _PERFORMANCE_NORMALIZERS[provider](provider, record)
PerformanceNormalizers(provider, record) ==
    CASE provider = AWS -> NormalizeAwsPerformance(provider, record)
      [] provider = AZURE -> NormalizeAzurePerformance(provider, record)
      [] provider = GCP -> NormalizeGcpPerformance(provider, record)

\* raw_records or []
OrEmptyList(raw_records) ==
    IF raw_records.type = "list" THEN raw_records.items ELSE <<>>

\* [normalizer(provider, record) for record in ...]: the list of the records
\* built, or the exception of the first record that raises
Comprehension(results) ==
    IF \E i \in DOMAIN results : results[i].raised # ""
    THEN LET first == CHOOSE i \in DOMAIN results :
                          /\ results[i].raised # ""
                          /\ \A j \in 1..(i - 1) : results[j].raised = ""
         IN  [status |-> "raised", error |-> results[first].raised, records |-> <<>>]
    ELSE [status |-> "returned", error |-> "",
          records |-> [i \in DOMAIN results |-> results[i].value]]

\* normalize_cost_records
NormalizeCostRecordsResult(provider, raw_records) ==
    IF provider \notin Providers
    THEN [status |-> "raised", error |-> "ValueError", records |-> <<>>]
    ELSE LET items == OrEmptyList(raw_records)
         IN  Comprehension([i \in DOMAIN items |-> CostNormalizers(provider, items[i])])

\* normalize_performance_records
NormalizePerformanceRecordsResult(provider, raw_records) ==
    IF provider \notin Providers
    THEN [status |-> "raised", error |-> "ValueError", records |-> <<>>]
    ELSE LET items == OrEmptyList(raw_records)
         IN  Comprehension([i \in DOMAIN items |-> PerformanceNormalizers(provider, items[i])])

-----------------------------------------------------------------------------
(* The provider adapters' records *)

\* datetime.utcnow() when the model starts, in days since 2024-01-01
Today == 40

\* aws_client.get_mock_cost_data
AwsMockCostData ==
    << "service" :> StrValue(<<"A","m","a","z","o","n","E","C","2">>)
         @@ "region" :> StrValue(<<"u","s","-","e","a","s","t","-","1">>)
         @@ "usage_amount" :> FloatValue(14020)
         @@ "usage_type" :> StrValue(<<"B","o","x","U","s","a","g","e",":","m","5",".","l","a","r","g","e">>)
         @@ "cost" :> FloatValue(21035)
         @@ "currency" :> StrValue(<<"U","S","D">>)
         @@ "timestamp" :> Datetime(Today - 5),

       "service" :> StrValue(<<"A","m","a","z","o","n","S","3">>)
         @@ "region" :> StrValue(<<"u","s","-","w","e","s","t","-","2">>)
         @@ "usage_amount" :> IntValue(18500)
         @@ "usage_type" :> StrValue(<<"T","i","m","e","d","S","t","o","r","a","g","e","-","B","y","t","e","H","r","s">>)
         @@ "cost" :> FloatValue(4412)
         @@ "currency" :> StrValue(<<"U","S","D">>)
         @@ "timestamp" :> Datetime(Today - 12),

       "service" :> StrValue(<<"A","m","a","z","o","n","R","D","S">>)
         @@ "region" :> StrValue(<<"e","u","-","c","e","n","t","r","a","l","-","1">>)
         @@ "usage_amount" :> IntValue(320)
         @@ "usage_type" :> StrValue(<<"I","n","s","t","a","n","c","e","U","s","a","g","e",":","d","b",".","r","6","g",".","l","a","r","g","e">>)
         @@ "cost" :> FloatValue(16890)
         @@ "currency" :> StrValue(<<"U","S","D">>)
         @@ "timestamp" :> Datetime(Today - 20) >>

\* azure_client.get_mock_cost_data
AzureMockCostData ==
    << "meterCategory" :> StrValue(<<"V","i","r","t","u","a","l"," ","M","a","c","h","i","n","e","s">>)
         @@ "meterRegion" :> StrValue(<<"e","a","s","t","u","s">>)
         @@ "resourceGroup" :> StrValue(<<"r","g","-","p","r","o","d","-","c","o","r","e">>)
         @@ "quantity" :> IntValue(96)
         @@ "unit" :> StrValue(<<"H","o","u","r","s">>)
         @@ "cost" :> FloatValue(18460)
         @@ "currency" :> StrValue(<<"U","S","D">>)
         @@ "timestamp" :> Datetime(Today - 4),

       "meterCategory" :> StrValue(<<"S","t","o","r","a","g","e">>)
         @@ "meterRegion" :> StrValue(<<"w","e","s","t","e","u","r","o","p","e">>)
         @@ "resourceGroup" :> StrValue(<<"r","g","-","a","n","a","l","y","t","i","c","s">>)
         @@ "quantity" :> IntValue(9200)
         @@ "unit" :> StrValue(<<"G","B","-","M","o","n","t","h">>)
         @@ "cost" :> FloatValue(3780)
         @@ "currency" :> StrValue(<<"U","S","D">>)
         @@ "timestamp" :> Datetime(Today - 11),

       "meterCategory" :> StrValue(<<"A","z","u","r","e"," ","S","Q","L"," ","D","a","t","a","b","a","s","e">>)
         @@ "meterRegion" :> StrValue(<<"c","e","n","t","r","a","l","u","s">>)
         @@ "resourceGroup" :> StrValue(<<"r","g","-","f","i","n","a","n","c","e">>)
         @@ "quantity" :> IntValue(210)
         @@ "unit" :> StrValue(<<"D","T","U"," ","H","o","u","r","s">>)
         @@ "cost" :> FloatValue(15240)
         @@ "currency" :> StrValue(<<"U","S","D">>)
         @@ "timestamp" :> Datetime(Today - 23) >>

\* gcp_client.get_mock_cost_data
GcpMockCostData ==
    << "sku" :> StrValue(<<"C","o","m","p","u","t","e"," ","E","n","g","i","n","e"," ","N","2">>)
         @@ "location" :> StrValue(<<"u","s","-","c","e","n","t","r","a","l","1">>)
         @@ "usage" :> IntValue(110)
         @@ "usage_unit" :> StrValue(<<"H","o","u","r","s">>)
         @@ "cost" :> FloatValue(19875)
         @@ "currency" :> StrValue(<<"U","S","D">>)
         @@ "project" :> StrValue(<<"p","r","o","d","-","c","o","r","e">>)
         @@ "timestamp" :> Datetime(Today - 6),

       "sku" :> StrValue(<<"C","l","o","u","d"," ","S","t","o","r","a","g","e"," ","S","t","a","n","d","a","r","d">>)
         @@ "location" :> StrValue(<<"a","s","i","a","-","s","o","u","t","h","e","a","s","t","1">>)
         @@ "usage" :> IntValue(7400)
         @@ "usage_unit" :> StrValue(<<"G","B","-","M","o","n","t","h">>)
         @@ "cost" :> FloatValue(3210)
         @@ "currency" :> StrValue(<<"U","S","D">>)
         @@ "project" :> StrValue(<<"a","n","a","l","y","t","i","c","s","-","e","t","l">>)
         @@ "timestamp" :> Datetime(Today - 14),

       "sku" :> StrValue(<<"B","i","g","Q","u","e","r","y"," ","S","l","o","t","s">>)
         @@ "location" :> StrValue(<<"e","u","r","o","p","e","-","w","e","s","t","4">>)
         @@ "usage" :> IntValue(56)
         @@ "usage_unit" :> StrValue(<<"S","l","o","t","H","o","u","r","s">>)
         @@ "cost" :> FloatValue(14230)
         @@ "currency" :> StrValue(<<"U","S","D">>)
         @@ "project" :> StrValue(<<"f","i","n","a","n","c","e","-","w","a","r","e","h","o","u","s","e">>)
         @@ "timestamp" :> Datetime(Today - 25) >>

\* aws_client.get_mock_performance_data
AwsMockPerformanceData ==
    << "service" :> StrValue(<<"A","m","a","z","o","n","E","C","2">>)
         @@ "region" :> StrValue(<<"u","s","-","e","a","s","t","-","1">>)
         @@ "metric" :> StrValue(<<"C","P","U","U","t","i","l","i","z","a","t","i","o","n">>)
         @@ "value" :> FloatValue(6730)
         @@ "unit" :> StrValue(<<"P","e","r","c","e","n","t">>)
         @@ "instance_type" :> StrValue(<<"m","5",".","l","a","r","g","e">>)
         @@ "timestamp" :> Datetime(Today - 3),

       "service" :> StrValue(<<"A","m","a","z","o","n","S","3">>)
         @@ "region" :> StrValue(<<"u","s","-","w","e","s","t","-","2">>)
         @@ "metric" :> StrValue(<<"F","i","r","s","t","B","y","t","e","L","a","t","e","n","c","y">>)
         @@ "value" :> IntValue(35)
         @@ "unit" :> StrValue(<<"M","i","l","l","i","s","e","c","o","n","d","s">>)
         @@ "bucket_class" :> StrValue(<<"S","T","A","N","D","A","R","D">>)
         @@ "timestamp" :> Datetime(Today - 9),

       "service" :> StrValue(<<"A","m","a","z","o","n","R","D","S">>)
         @@ "region" :> StrValue(<<"e","u","-","c","e","n","t","r","a","l","-","1">>)
         @@ "metric" :> StrValue(<<"F","r","e","e","S","t","o","r","a","g","e","S","p","a","c","e">>)
         @@ "value" :> IntValue(85)
         @@ "unit" :> StrValue(<<"P","e","r","c","e","n","t">>)
         @@ "engine" :> StrValue(<<"a","u","r","o","r","a","-","p","o","s","t","g","r","e","s","q","l">>)
         @@ "timestamp" :> Datetime(Today - 16) >>

\* azure_client.get_mock_performance_data
AzureMockPerformanceData ==
    << "resourceType" :> StrValue(<<"V","i","r","t","u","a","l","M","a","c","h","i","n","e">>)
         @@ "meterRegion" :> StrValue(<<"e","a","s","t","u","s">>)
         @@ "metricName" :> StrValue(<<"P","e","r","c","e","n","t","a","g","e"," ","C","P","U">>)
         @@ "average" :> FloatValue(6150)
         @@ "unit" :> StrValue(<<"P","e","r","c","e","n","t">>)
         @@ "vmSize" :> StrValue(<<"S","t","a","n","d","a","r","d","_","D","4","s","_","v","5">>)
         @@ "timestamp" :> Datetime(Today - 2),

       "resourceType" :> StrValue(<<"S","t","o","r","a","g","e","A","c","c","o","u","n","t">>)
         @@ "meterRegion" :> StrValue(<<"w","e","s","t","e","u","r","o","p","e">>)
         @@ "metricName" :> StrValue(<<"E","2","E"," ","L","a","t","e","n","c","y">>)
         @@ "average" :> IntValue(23)
         @@ "unit" :> StrValue(<<"M","i","l","l","i","s","e","c","o","n","d","s">>)
         @@ "accountType" :> StrValue(<<"S","t","a","n","d","a","r","d","_","L","R","S">>)
         @@ "timestamp" :> Datetime(Today - 8),

       "resourceType" :> StrValue(<<"A","z","u","r","e","S","Q","L">>)
         @@ "meterRegion" :> StrValue(<<"c","e","n","t","r","a","l","u","s">>)
         @@ "metricName" :> StrValue(<<"D","T","U"," ","P","e","r","c","e","n","t","a","g","e">>)
         @@ "average" :> FloatValue(7290)
         @@ "unit" :> StrValue(<<"P","e","r","c","e","n","t">>)
         @@ "tier" :> StrValue(<<"B","u","s","i","n","e","s","s","C","r","i","t","i","c","a","l">>)
         @@ "timestamp" :> Datetime(Today - 15) >>

\* gcp_client.get_mock_performance_data
GcpMockPerformanceData ==
    << "service" :> StrValue(<<"C","o","m","p","u","t","e"," ","E","n","g","i","n","e">>)
         @@ "location" :> StrValue(<<"u","s","-","c","e","n","t","r","a","l","1">>)
         @@ "metric" :> StrValue(<<"C","P","U"," ","u","t","i","l","i","z","a","t","i","o","n">>)
         @@ "value" :> FloatValue(6410)
         @@ "unit" :> StrValue(<<"P","e","r","c","e","n","t">>)
         @@ "machine_type" :> StrValue(<<"n","2","-","s","t","a","n","d","a","r","d","-","4">>)
         @@ "timestamp" :> Datetime(Today - 1),

       "service" :> StrValue(<<"C","l","o","u","d"," ","S","t","o","r","a","g","e">>)
         @@ "location" :> StrValue(<<"a","s","i","a","-","s","o","u","t","h","e","a","s","t","1">>)
         @@ "metric" :> StrValue(<<"R","e","q","u","e","s","t"," ","l","a","t","e","n","c","y">>)
         @@ "value" :> IntValue(28)
         @@ "unit" :> StrValue(<<"M","i","l","l","i","s","e","c","o","n","d","s">>)
         @@ "storage_class" :> StrValue(<<"S","T","A","N","D","A","R","D">>)
         @@ "timestamp" :> Datetime(Today - 7),

       "service" :> StrValue(<<"B","i","g","Q","u","e","r","y">>)
         @@ "location" :> StrValue(<<"e","u","r","o","p","e","-","w","e","s","t","4">>)
         @@ "metric" :> StrValue(<<"S","l","o","t"," ","u","t","i","l","i","z","a","t","i","o","n">>)
         @@ "value" :> FloatValue(7140)
         @@ "unit" :> StrValue(<<"P","e","r","c","e","n","t">>)
         @@ "reservation" :> StrValue(<<"p","r","o","d","-","b","i","-","s","l","o","t","s">>)
         @@ "timestamp" :> Datetime(Today - 19) >>

-----------------------------------------------------------------------------
(* The read path over a database filled by inserts *)

Init ==
    /\ now = Today
    /\ cloud_accounts = <<>>
    /\ cost_records = EmptyBag
    /\ performance_records = EmptyBag
    /\ reply = NoReply
    /\ request = NoRequest
    /\ normalized = NotNormalized
    /\ seeding = NotSeeding

Next ==
    \/ AddAccount
    \/ InsertCost
    \/ InsertPerformance
    \/ GetOptimizationSuggestions
    \/ GetOverviewSummary
    \/ GetComparisonSummary

Spec == Init /\ [][Next]_vars

-----------------------------------------------------------------------------
(* The normalizer over raw records: the adapters' records and records made *)
(* from them by dropping keys and by replacing values.                     *)

\* the dict without some keys, and with one key set
Without(record, keys) == [k \in DOMAIN record \ keys |-> record[k]]
With(record, key, value) ==
    [k \in DOMAIN record \cup {key} |-> IF k = key THEN value ELSE record[k]]

\* {}
EmptyDict == <<>>

\* values put in the place of a number, of a string and of a timestamp
NumericAlternatives ==
    { None, EmptyList, StrValue(<<"n","/","a">>), StrValue(<<>>), StrValue(<<"1","2",".","5","0">>),
      StrValue(<<"-","3",".","0","0">>), StrValue(<<" ","7"," ">>), FloatValue(0), FloatValue(0 - 500),
      IntValue(35), TooLargeInt }

StringAlternatives ==
    { None, EmptyList, StrValue(<<>>), StrValue(<<" ">>), FloatValue(1250), IntValue(7) }

TimestampAlternatives ==
    { None, StrValue(<<"2","0","2","4","-","0","1","-","1","5">>), StrValue(<<"2","0","2","4","-","0","2","-","3","0">>), StrValue(<<"y","e","s","t","e","r","d","a","y">>) }

\* what a numeric field is given when several are spoiled at once
SpoiledNumbers == { None, EmptyList, StrValue(<<"n","/","a">>) }

\* metric names: the adapters' nine, the empty name, and names that hold no
\* token, one token, or tokens of two kinds
MetricNames ==
    { <<"C","P","U","U","t","i","l","i","z","a","t","i","o","n">>, <<"F","i","r","s","t","B","y","t","e","L","a","t","e","n","c","y">>, <<"F","r","e","e","S","t","o","r","a","g","e","S","p","a","c","e">>,
      <<"P","e","r","c","e","n","t","a","g","e"," ","C","P","U">>, <<"E","2","E"," ","L","a","t","e","n","c","y">>, <<"D","T","U"," ","P","e","r","c","e","n","t","a","g","e">>,
      <<"C","P","U"," ","u","t","i","l","i","z","a","t","i","o","n">>, <<"R","e","q","u","e","s","t"," ","l","a","t","e","n","c","y">>, <<"S","l","o","t"," ","u","t","i","l","i","z","a","t","i","o","n">>,
      <<>>, <<"R","e","q","u","e","s","t","s">>, <<"M","e","m","o","r","y","U","s","e","d">>, <<"N","e","t","w","o","r","k","I","n">>, <<"D","i","s","k","I","O">>, <<"T","h","r","o","u","g","h","p","u","t">>,
      <<"c","p","u","_","m","e","m","o","r","y">>, <<"C","p","u","S","t","o","r","a","g","e","L","a","t","e","n","c","y">>, <<"m","e","m","o","r","y","_","l","a","t","e","n","c","y">>, <<"S","L","O","T"," ","N","E","T","W","O","R","K">> }

\* the records made from one record: any subset of its keys dropped, one
\* field replaced, or every numeric field spoiled
Variations(base, numeric_keys) ==
    {Without(base, keys) : keys \in SUBSET DOMAIN base}
    \cup {With(base, k, v) : k \in numeric_keys, v \in NumericAlternatives}
    \cup {With(base, k, v) : k \in DOMAIN base \ (numeric_keys \cup {"timestamp"}),
                             v \in StringAlternatives}
    \cup {With(base, "timestamp", v) : v \in TimestampAlternatives}
    \cup {[k \in DOMAIN base |-> IF k \in numeric_keys THEN spoiled[k] ELSE base[k]] :
              spoiled \in [numeric_keys -> SpoiledNumbers]}

\* the same for the metric name, alone and with a value of 0 or none
MetricVariations(base, metric_key, value_key) ==
    {With(base, metric_key, StrValue(m)) : m \in MetricNames}
    \cup {With(With(base, metric_key, StrValue(m)), value_key, v) :
              m \in MetricNames, v \in {FloatValue(0), None, FloatValue(0 - 500)}}
    \cup {Without(With(base, value_key, v), {metric_key}) :
              v \in {FloatValue(0), FloatValue(4210)}}

RawCostRecords(provider) ==
    CASE provider = AWS -> Variations(AwsMockCostData[1], {"usage_amount", "cost"})
      [] provider = AZURE -> Variations(AzureMockCostData[1], {"quantity", "cost"})
      [] provider = GCP -> Variations(GcpMockCostData[1], {"usage", "cost"})

RawPerformanceRecords(provider) ==
    CASE provider = AWS ->
            Variations(AwsMockPerformanceData[1], {"value"})
                \cup MetricVariations(AwsMockPerformanceData[1], "metric", "value")
      [] provider = AZURE ->
            Variations(AzureMockPerformanceData[1], {"average"})
                \cup MetricVariations(AzureMockPerformanceData[1], "metricName", "average")
                \cup {With(AzureMockPerformanceData[i], "resourceGroup", AzureMockCostData[i]["resourceGroup"]) :
                          i \in DOMAIN AzureMockPerformanceData}
      [] provider = GCP ->
            Variations(GcpMockPerformanceData[1], {"value"})
                \cup MetricVariations(GcpMockPerformanceData[1], "metric", "value")
                \cup {With(GcpMockPerformanceData[i], "project", GcpMockCostData[i]["project"]) :
                          i \in DOMAIN GcpMockPerformanceData}

\* the records lists of several records are made of
ListedCostRecords(provider) ==
    LET mock == CASE provider = AWS -> AwsMockCostData
                  [] provider = AZURE -> AzureMockCostData
                  [] provider = GCP -> GcpMockCostData
    IN  {mock[i] : i \in DOMAIN mock}
            \cup {EmptyDict, With(mock[1], "cost", TooLargeInt), With(mock[2], "cost", FloatValue(0 - 500))}

ListedPerformanceRecords(provider) ==
    LET mock == CASE provider = AWS -> AwsMockPerformanceData
                  [] provider = AZURE -> AzureMockPerformanceData
                  [] provider = GCP -> GcpMockPerformanceData
    IN  {mock[i] : i \in DOMAIN mock} \cup {EmptyDict}

\* a provider outside the enum
UnsupportedProviders == {"ORACLE"}

ListsUpTo(records, n) == UNION {[1..k -> records] : k \in 0..n}

\* the raw_records arguments: None, the lists of up to MaxRawRecords listed
\* records, and the list of one record for every record made
RawRecordsArguments(listed, made) ==
    {None}
    \cup {ListValue(items) : items \in ListsUpTo(listed, MaxRawRecords)}
    \cup {ListValue(<<record>>) : record \in made}

Requests ==
    UNION {
        {[kind |-> "cost", provider |-> provider, raw_records |-> raw_records] :
            raw_records \in RawRecordsArguments(ListedCostRecords(provider),
                                                 RawCostRecords(provider))}
        \cup
        {[kind |-> "performance", provider |-> provider, raw_records |-> raw_records] :
            raw_records \in RawRecordsArguments(ListedPerformanceRecords(provider),
                                                 RawPerformanceRecords(provider))}
        : provider \in Providers }
    \cup {[kind |-> kind, provider |-> provider, raw_records |-> raw_records] :
            kind \in {"cost", "performance"},
            provider \in UnsupportedProviders,
            raw_records \in {None, EmptyList, ListValue(<<EmptyDict>>),
                             ListValue(<<AwsMockCostData[1]>>)}}

\* a call of normalize_cost_records
NormalizeCostRecords ==
    /\ request.kind = "cost"
    /\ normalized.status = "none"
    /\ normalized' = NormalizeCostRecordsResult(request.provider, request.raw_records)
    /\ UNCHANGED <<now, cloud_accounts, cost_records, performance_records, reply, request, seeding>>

\* a call of normalize_performance_records
NormalizePerformanceRecords ==
    /\ request.kind = "performance"
    /\ normalized.status = "none"
    /\ normalized' = NormalizePerformanceRecordsResult(request.provider, request.raw_records)
    /\ UNCHANGED <<now, cloud_accounts, cost_records, performance_records, reply, request, seeding>>

InitNorm ==
    /\ now = Today
    /\ cloud_accounts = <<>>
    /\ cost_records = EmptyBag
    /\ performance_records = EmptyBag
    /\ reply = NoReply
    /\ request \in Requests
    /\ normalized = NotNormalized
    /\ seeding = NotSeeding

NextNorm ==
    \/ NormalizeCostRecords
    \/ NormalizePerformanceRecords

SpecNorm == InitNorm /\ [][NextNorm]_vars

-----------------------------------------------------------------------------
(* Claims about get_optimization_suggestions.  A reply is read together    *)
(* with the tables it was computed from: every write clears it.            *)

Recommended == reply.op = "recommendations"

\* the workloads of the window of the reply
ReplyWorkloads == CollectWorkloads(WindowStart(reply.days))

\* the rows of a table inside the window of the reply that belong to workload w
RowsOf(table, w) ==
    {r \in InWindow(table, WindowStart(reply.days)) : WorkloadKey(r) = WorkloadKey(w)}

CostOf(w) == SumCost(RowsOf(cost_records, w))

SameGroup(a, b) ==
    Lower(a.service) = Lower(b.service) /\ Lower(a.region) = Lower(b.region)

\* |cpu of b - cpu of a| <= 10.0, from the performance rows of the two workloads
CpuWithinTolerance(a, b) ==
    LET ra == RowsOf(performance_records, a)
        rb == RowsOf(performance_records, b)
    IN  /\ ra # {} /\ rb # {}
        /\ Abs(SumCpu(rb) * CountRows(ra) - SumCpu(ra) * CountRows(rb))
              <= 10 * 10 * CountRows(ra) * CountRows(rb)

\* b is an eligible substitute of a
EligibleSubstitute(a, b) ==
    /\ WorkloadKey(a) # WorkloadKey(b)
    /\ SameGroup(a, b)
    /\ CostOf(a) > 0 /\ CostOf(b) > 0
    /\ CpuWithinTolerance(a, b)
    /\ (CostOf(a) - CostOf(b)) * 1000 >= reply.threshold * CostOf(a)

\* C1: every recommendation is sound: source and target are distinct workloads
\* of one (lowercased service, lowercased region) group, both with cost > 0 and
\* with performance rows (a known average CPU), at most 10 points of CPU apart,
\* and the saving reaches the threshold.
C1_RecommendationsSound ==
    Recommended =>
        \A n \in DOMAIN reply.suggestions :
            LET s == reply.suggestions[n]
            IN  /\ RowsOf(cost_records, s.source) # {}
                /\ RowsOf(cost_records, s.target) # {}
                /\ EligibleSubstitute(s.source, s.target)

\* C1 witness: a recommendation is returned while two workloads of one group,
\* both with cost and CPU, more than 10 points apart and with a cost gap over
\* the threshold, have no recommendation between them.
C1_Witness ==
    /\ Recommended
    /\ reply.suggestions # <<>>
    /\ \E i, j \in DOMAIN ReplyWorkloads :
          LET a == ReplyWorkloads[i]
              b == ReplyWorkloads[j]
          IN  /\ i # j /\ SameGroup(a, b)
              /\ CostOf(a) > 0 /\ CostOf(b) > 0
              /\ (CostOf(a) - CostOf(b)) * 1000 >= reply.threshold * CostOf(a)
              /\ CostOf(a) > CostOf(b)
              /\ RowsOf(performance_records, a) # {} /\ RowsOf(performance_records, b) # {}
              /\ ~CpuWithinTolerance(a, b)
              /\ \A n \in DOMAIN reply.suggestions :
                    reply.suggestions[n].source # a

\* C2: exactly one recommendation for each workload that has an eligible
\* substitute, none for any other workload.
C2_OnePerEligibleSource ==
    Recommended =>
        /\ \A i \in DOMAIN ReplyWorkloads :
              LET a == ReplyWorkloads[i]
                  eligible == \E j \in DOMAIN ReplyWorkloads : EligibleSubstitute(a, ReplyWorkloads[j])
              IN  Cardinality({n \in DOMAIN reply.suggestions :
                                  WorkloadKey(reply.suggestions[n].source) = WorkloadKey(a)})
                      = IF eligible THEN 1 ELSE 0
        /\ \A n \in DOMAIN reply.suggestions :
              \E i \in DOMAIN ReplyWorkloads :
                  WorkloadKey(ReplyWorkloads[i]) = WorkloadKey(reply.suggestions[n].source)

\* C2 witness: two recommendations with different sources, and a workload with
\* cost and CPU that is the source of none.
C2_Witness ==
    /\ Recommended
    /\ Len(reply.suggestions) = 2
    /\ \E i \in DOMAIN ReplyWorkloads :
          LET a == ReplyWorkloads[i]
          IN  /\ CostOf(a) > 0 /\ RowsOf(performance_records, a) # {}
              /\ \A n \in DOMAIN reply.suggestions : reply.suggestions[n].source # a

\* the scenario of tests/test_optimization.py: one cost row and one performance
\* row for each of AWS (cost 200, cpu 65) and GCP (cost 120, cpu 63.5), Compute
\* in us-east-1, all inside the window
ScenarioTables ==
    /\ Len(cloud_accounts) = 2
    /\ cost_records = SetToBag({
          CostRow(cloud_accounts[1], WorkloadSlots[1], 20000, now),
          CostRow(cloud_accounts[2], WorkloadSlots[2], 12000, now)})
    /\ performance_records = SetToBag({
          PerformanceRow(cloud_accounts[1], WorkloadSlots[1], 650, now),
          PerformanceRow(cloud_accounts[2], WorkloadSlots[2], 635, now)})

\* C3: the fields of a recommendation from A to B are A's
\* "<account_identifier>:<service>@<region>", A's provider, B's provider and
\* (costA - costB)/costA*100 rounded to 2 decimals; the scenario of the test
\* gives exactly one recommendation, AWS to GCP, 40.0 percent,
\* "aws-account:Compute@us-east-1".
C3_EmittedFields ==
    Recommended =>
        /\ \A n \in DOMAIN reply.suggestions :
              LET s == reply.suggestions[n]
                  a == s.source
                  b == s.target
              IN  /\ s.workload_id =
                        cloud_accounts[a.account_id].account_identifier
                            \o <<":">> \o a.service \o <<"@">> \o a.region
                  /\ s.current_provider = a.provider
                  /\ s.recommended_provider = b.provider
                  \* the nearest multiple of 0.01 percent
                  /\ 2 * Abs(s.estimated_savings_percent * CostOf(a)
                              - (CostOf(a) - CostOf(b)) * 10000) <= CostOf(a)
        /\ (ScenarioTables /\ reply.threshold = 150) =>
              /\ Len(reply.suggestions) = 1
              /\ reply.suggestions[1].current_provider = AWS
              /\ reply.suggestions[1].recommended_provider = GCP
              /\ reply.suggestions[1].estimated_savings_percent = 4000
              /\ reply.suggestions[1].workload_id =
                    <<"a","w","s","-","a","c","c","o","u","n","t",":",
                      "C","o","m","p","u","t","e","@",
                      "u","s","-","e","a","s","t","-","1">>

\* C3 witness: the reply of the scenario of the test.
C3_Witness ==
    /\ Recommended
    /\ ScenarioTables
    /\ reply.threshold = 150
    /\ reply.suggestions # <<>>

\* C3 second case, reached as well: a later, cheaper candidate replaced an
\* earlier one, so the saving emitted is that of the replacement.
C3_ReplacedWitness ==
    /\ Recommended
    /\ \E n \in DOMAIN reply.suggestions :
          LET s == reply.suggestions[n]
          IN  \E i \in DOMAIN ReplyWorkloads :
                  /\ EligibleSubstitute(s.source, ReplyWorkloads[i])
                  /\ CostOf(ReplyWorkloads[i]) > CostOf(s.target)

\* C4 (as claimed): every recommendation names a recommended provider other
\* than the current provider.
C4_CrossProvider ==
    Recommended =>
        \A n \in DOMAIN reply.suggestions :
            reply.suggestions[n].recommended_provider # reply.suggestions[n].current_provider

\* C5: a workload alone in its (lowercased service, lowercased region) group
\* is the source of no recommendation, and only groups of at least 2
\* workloads are scanned.
C5_LoneWorkloadNeverSource ==
    Recommended =>
        /\ \A n \in DOMAIN reply.suggestions :
              \E i \in DOMAIN ReplyWorkloads :
                  /\ WorkloadKey(ReplyWorkloads[i]) # WorkloadKey(reply.suggestions[n].source)
                  /\ SameGroup(ReplyWorkloads[i], reply.suggestions[n].source)
        /\ \A g \in DOMAIN reply.scanned :
              Cardinality({i \in DOMAIN ReplyWorkloads :
                  <<Lower(ReplyWorkloads[i].service), Lower(ReplyWorkloads[i].region)>>
                      = reply.scanned[g]}) >= 2

\* C5 witness: a workload with cost and CPU is alone in its group, which is
\* not scanned, while another group is scanned and yields a recommendation.
C5_Witness ==
    /\ Recommended
    /\ reply.suggestions # <<>>
    /\ \E i \in DOMAIN ReplyWorkloads :
          LET a == ReplyWorkloads[i]
          IN  /\ CostOf(a) > 0 /\ RowsOf(performance_records, a) # {}
              /\ \A j \in DOMAIN ReplyWorkloads : j # i => ~SameGroup(a, ReplyWorkloads[j])
              /\ \A g \in DOMAIN reply.scanned :
                    reply.scanned[g] # <<Lower(a.service), Lower(a.region)>>

-----------------------------------------------------------------------------
(* Claims about the normalizer, read in the states of SpecNorm where the   *)
(* call has been made: request holds its arguments, normalized its outcome. *)

Normalized(kind) ==
    /\ request.kind = kind
    /\ request.provider \in Providers
    /\ normalized.status # "none"

\* the records of the call, in the order given
RawItems == OrEmptyList(request.raw_records)

\* the keys under which each adapter reports the fields of a CostRecord
CostFieldNames(provider) ==
    CASE provider = AWS ->
            [service |-> "service", region |-> "region", usage_amount |-> "usage_amount",
             usage_unit |-> "usage_type", cost_amount |-> "cost", currency |-> "currency"]
      [] provider = AZURE ->
            [service |-> "meterCategory", region |-> "meterRegion", usage_amount |-> "quantity",
             usage_unit |-> "unit", cost_amount |-> "cost", currency |-> "currency"]
      [] provider = GCP ->
            [service |-> "sku", region |-> "location", usage_amount |-> "usage",
             usage_unit |-> "usage_unit", cost_amount |-> "cost", currency |-> "currency"]

\* the keys of the metric name and of its value
PerformanceFieldNames(provider) ==
    CASE provider = AWS -> [metric |-> "metric", value |-> "value"]
      [] provider = AZURE -> [metric |-> "metricName", value |-> "average"]
      [] provider = GCP -> [metric |-> "metric", value |-> "value"]

\* the defaults of the string fields of a CostRecord
DocumentedDefaults(provider) ==
    [service |-> CASE provider = AWS -> <<"A","m","a","z","o","n","S","e","r","v","i","c","e">>
                   [] provider = AZURE -> <<"A","z","u","r","e","S","e","r","v","i","c","e">>
                   [] provider = GCP -> <<"G","C","P","S","e","r","v","i","c","e">>,
     region |-> <<"g","l","o","b","a","l">>,
     usage_unit |-> <<"U","n","i","t","s">>,
     currency |-> <<"U","S","D">>]

StringFields == {"service", "region", "usage_unit", "currency"}
NumericFields == {"usage_amount", "cost_amount"}

\* a field is missing when its key is absent or holds None
IsMissing(record, key) == key \notin DOMAIN record \/ record[key] = None

\* a value that is no number: None, a list, or a string that is not the
\* text of a number
IsNonNumeric(value) ==
    \/ value.type \in {"NoneType", "list"}
    \/ value.type = "str" /\ ParseFloat(value.text).raised # ""

\* a number a float can hold, in hundredths
IsOrdinaryNumber(value) ==
    \/ value.type = "float"
    \/ value.type = "int" /\ "number" \in DOMAIN value
    \/ value.type = "str" /\ ParseFloat(value.text).raised = ""

NumberOf(value) ==
    IF value.type = "str" THEN ParseFloat(value.text).value ELSE value.number

\* every numeric field of every record of the call is missing, no number, or
\* a number a float can hold
NumbersMissingOrSpoiledOrOrdinary(names) ==
    \A i \in DOMAIN RawItems : \A f \in names :
        LET value == Get(RawItems[i], f)
        IN  IsNonNumeric(value) \/ IsOrdinaryNumber(value)

\* C7: for AWS, AZURE and GCP, normalize_cost_records returns, for records
\* whose fields are missing or hold no number in any combination, one
\* CostRecord per record in the order given; a numeric field that is missing
\* or no number is 0.0, a number is kept, a missing string field has its
\* default and a string is kept.
C7_CostRecordsNeverRaise ==
    LET names == CostFieldNames(request.provider)
        defaults == DocumentedDefaults(request.provider)
    IN  (Normalized("cost")
            /\ NumbersMissingOrSpoiledOrOrdinary({names[f] : f \in NumericFields}))
        => /\ normalized.status = "returned"
           /\ Len(normalized.records) = Len(RawItems)
           /\ \A i \in DOMAIN RawItems :
                LET record == RawItems[i]
                    out == normalized.records[i]
                IN  /\ out.provider = request.provider
                    /\ \A f \in NumericFields :
                          out[f] = IF IsNonNumeric(Get(record, names[f])) THEN 0
                                   ELSE NumberOf(Get(record, names[f]))
                    /\ \A f \in StringFields :
                          /\ IsMissing(record, names[f]) => out[f] = defaults[f]
                          /\ Get(record, names[f]).type = "str"
                                => out[f] = Get(record, names[f]).text

\* C7 witness: a list of two records, the first an empty dict and the second
\* a full adapter record, comes back as two CostRecords, the first all
\* defaults.
C7_Witness ==
    /\ Normalized("cost")
    /\ normalized.status = "returned"
    /\ Len(RawItems) = 2
    /\ RawItems[1] = EmptyDict
    /\ DOMAIN RawItems[2] # {}
    /\ Len(normalized.records) = 2
    /\ normalized.records[1].cost_amount = 0
    /\ normalized.records[1].service = DocumentedDefaults(request.provider).service
    /\ normalized.records[2].cost_amount > 0

\* C7 witness: a record whose two numeric fields are both spoiled (a list, a
\* string that is no number, or None) is normalized with both at 0.0.
C7_SpoiledWitness ==
    LET names == CostFieldNames(request.provider)
    IN  /\ Normalized("cost")
        /\ normalized.status = "returned"
        /\ Len(RawItems) = 1
        /\ names.usage_amount \in DOMAIN RawItems[1]
        /\ names.cost_amount \in DOMAIN RawItems[1]
        /\ RawItems[1][names.usage_amount].type = "list"
        /\ RawItems[1][names.cost_amount].type = "str"
        /\ normalized.records[1].usage_amount = 0
        /\ normalized.records[1].cost_amount = 0

\* C8: every CostRecord normalize_cost_records returns has cost_amount >= 0
\* and usage_amount >= 0, whatever the raw record holds.
C8_AmountsNonNegative ==
    (Normalized("cost") /\ normalized.status = "returned")
        => \A i \in DOMAIN normalized.records :
              /\ normalized.records[i].cost_amount >= 0
              /\ normalized.records[i].usage_amount >= 0

\* the metric name and the value _metric_to_performance_fields is given
MetricNameOf(record) ==
    LET value == Get(record, PerformanceFieldNames(request.provider).metric)
    IN  IF value = None THEN <<>> ELSE ToStr(value)

MetricValueOf(record) ==
    LET value == Get(record, PerformanceFieldNames(request.provider).value)
    IN  IF IsNonNumeric(value) THEN 0 ELSE NumberOf(value)

MemoryTokens == {<<"m","e","m","o","r","y">>, <<"s","t","o","r","a","g","e">>, <<"d","t","u">>, <<"s","l","o","t">>}
NetworkTokens == {<<"l","a","t","e","n","c","y">>, <<"n","e","t","w","o","r","k">>, <<"i","o">>, <<"t","h","r","o","u","g","h","p","u","t">>}

HasToken(tokens, name) == \E token \in tokens : Contains(token, Lower(name))

\* (cpu_utilization, memory_utilization, network_io) of a PerformanceRecord
Slots(out) == <<out.cpu_utilization, out.memory_utilization, out.network_io>>

\* C9 as stated: a name with a memory token routes the value to
\* memory_utilization, a name with a network token and no memory token to
\* network_io, and only the remaining names to cpu_utilization.
C9_TokensDecide ==
    (Normalized("performance") /\ normalized.status = "returned")
        => \A i \in DOMAIN RawItems :
              LET name == MetricNameOf(RawItems[i])
                  value == MetricValueOf(RawItems[i])
              IN  Slots(normalized.records[i]) =
                      IF HasToken(MemoryTokens, name) THEN <<0, value, 0>>
                      ELSE IF HasToken(NetworkTokens, name) THEN <<0, 0, value>>
                      ELSE <<value, 0, 0>>

\* C9 amended: among the names that do not contain "cpu", a name with a memory
\* token routes the value to memory_utilization, a name with a network token
\* and no memory token to network_io, the remaining ones to cpu_utilization;
\* the two slots not chosen are 0.0.
C9_TokensDecideWithoutCpu ==
    (Normalized("performance") /\ normalized.status = "returned")
        => \A i \in DOMAIN RawItems :
              LET name == MetricNameOf(RawItems[i])
                  value == MetricValueOf(RawItems[i])
              IN  ~HasToken({<<"c","p","u">>}, name)
                  => Slots(normalized.records[i]) =
                        IF HasToken(MemoryTokens, name) THEN <<0, value, 0>>
                        ELSE IF HasToken(NetworkTokens, name) THEN <<0, 0, value>>
                        ELSE <<value, 0, 0>>

\* C9 witness: a name without "cpu" that holds a memory token and a network
\* token, with a value other than 0, is routed to memory_utilization.
C9_Witness ==
    /\ Normalized("performance")
    /\ normalized.status = "returned"
    /\ Len(RawItems) = 1
    /\ ~HasToken({<<"c","p","u">>}, MetricNameOf(RawItems[1]))
    /\ HasToken(MemoryTokens, MetricNameOf(RawItems[1]))
    /\ HasToken(NetworkTokens, MetricNameOf(RawItems[1]))
    /\ MetricValueOf(RawItems[1]) > 0
    /\ normalized.records[1].memory_utilization = MetricValueOf(RawItems[1])

\* C10: for each provider, a record whose metric name contains "cpu" in any
\* letter case has cpu_utilization equal to its value and the two other slots
\* 0.0, and so has a record whose metric name is missing or empty.
C10_CpuNamesRouteToCpu ==
    (Normalized("performance") /\ normalized.status = "returned")
        => \A i \in DOMAIN RawItems :
              LET key == PerformanceFieldNames(request.provider).metric
                  name == MetricNameOf(RawItems[i])
              IN  (\/ IsMissing(RawItems[i], key)
                   \/ name = <<>>
                   \/ Contains(<<"c","p","u">>, Lower(name)))
                  => Slots(normalized.records[i]) = <<MetricValueOf(RawItems[i]), 0, 0>>

\* C10 witness: the adapter's "CPUUtilization", which also holds the network
\* token "io", is normalized with its value 67.3 in cpu_utilization.
C10_Witness ==
    /\ Normalized("performance")
    /\ normalized.status = "returned"
    /\ Len(RawItems) = 1
    /\ MetricNameOf(RawItems[1]) = <<"C","P","U","U","t","i","l","i","z","a","t","i","o","n">>
    /\ normalized.records[1].cpu_utilization = 6730
    /\ normalized.records[1].network_io = 0

\* C10 witness: a record without a metric name has its value in
\* cpu_utilization.
C10_MissingNameWitness ==
    /\ Normalized("performance")
    /\ normalized.status = "returned"
    /\ Len(RawItems) = 1
    /\ PerformanceFieldNames(request.provider).metric \notin DOMAIN RawItems[1]
    /\ normalized.records[1].cpu_utilization = 4210

\* the slots of a PerformanceRecord that are not 0.0
NonZeroSlots(out) == {k \in 1..3 : Slots(out)[k] # 0}

\* C11 as stated: in every PerformanceRecord returned exactly one of
\* cpu_utilization, memory_utilization and network_io is non-zero, whatever
\* the value field of the raw record holds.
C11_ExactlyOneNonZero ==
    (Normalized("performance") /\ normalized.status = "returned")
        => \A i \in DOMAIN normalized.records :
              Cardinality(NonZeroSlots(normalized.records[i])) = 1

\* C11 amended: in every PerformanceRecord returned at most one of the three
\* slots is non-zero; exactly one is, and it holds the value, when the value
\* field is a number other than 0, and none is when the value field is
\* missing, no number or 0.
C11_AtMostOneNonZero ==
    (Normalized("performance") /\ normalized.status = "returned")
        => \A i \in DOMAIN RawItems :
              LET out == normalized.records[i]
                  value == MetricValueOf(RawItems[i])
              IN  /\ Cardinality(NonZeroSlots(out)) <= 1
                  /\ value # 0 => /\ Cardinality(NonZeroSlots(out)) = 1
                                  /\ \E k \in NonZeroSlots(out) : Slots(out)[k] = value
                  /\ value = 0 => NonZeroSlots(out) = {}

\* C11 witness: a record with a network-classified name and a value other
\* than 0 has network_io alone non-zero.
C11_Witness ==
    /\ Normalized("performance")
    /\ normalized.status = "returned"
    /\ Len(RawItems) = 1
    /\ MetricValueOf(RawItems[1]) # 0
    /\ NonZeroSlots(normalized.records[1]) = {3}

\* C11 witness: a record whose value field is 0 has the three slots at 0.0.
C11_ZeroValueWitness ==
    /\ Normalized("performance")
    /\ normalized.status = "returned"
    /\ Len(RawItems) = 1
    /\ PerformanceFieldNames(request.provider).value \in DOMAIN RawItems[1]
    /\ RawItems[1][PerformanceFieldNames(request.provider).value] = FloatValue(0)
    /\ NonZeroSlots(normalized.records[1]) = {}

\* C12: a call with a provider outside AWS, AZURE, GCP raises the
\* unsupported-provider error and produces no record, and a call with a
\* supported provider and any list of record dicts (or None) returns.
C12_OnlyUnsupportedProviderRaises ==
    (request.kind \in {"cost", "performance"} /\ normalized.status # "none")
        => IF request.provider \in Providers
           THEN normalized.status = "returned"
           ELSE /\ normalized.status = "raised"
                /\ normalized.error = "ValueError"
                /\ normalized.records = <<>>

\* the key of the account of a raw record, for the providers that have one
AccountFieldName(provider) ==
    CASE provider = AZURE -> "resourceGroup"
      [] provider = GCP -> "project"

\* the account_id the claim gives a raw record
ClaimedAccountId(provider, record) ==
    IF provider = AWS THEN <<"a","w","s","-","d","e","f","a","u","l","t","-","a","c","c","o","u","n","t">>
    ELSE IF ~IsMissing(record, AccountFieldName(provider))
         THEN ToStr(record[AccountFieldName(provider)])
         ELSE IF provider = AZURE THEN <<"s","u","b","s","c","r","i","p","t","i","o","n","s","/","d","e","f","a","u","l","t">> ELSE <<"p","r","o","j","e","c","t","s","/","d","e","f","a","u","l","t">>

\* C13: in the cost and in the performance records returned, an AWS record
\* has the constant default account, an Azure record its resource group and
\* a GCP record its project when the raw record holds one, and the default
\* identifier of its provider otherwise.
C13_AccountIdExtracted ==
    (request.kind \in {"cost", "performance"} /\ request.provider \in Providers
        /\ normalized.status = "returned")
        => \A i \in DOMAIN RawItems :
              normalized.records[i].account_id = ClaimedAccountId(request.provider, RawItems[i])

-----------------------------------------------------------------------------
(* The read operations over databases of the three providers: the tables   *)
(* are drawn from sample rows and stay as they are, the operations are     *)
(* called with every kind of days argument.                                *)

Storage == <<"S","t","o","r","a","g","e">>
AzureAccount == <<"a","z","u","r","e","-","a","c","c","o","u","n","t">>
AwsStorageWorkload == <<"a","w","s","-","s","t","o","r","a","g","e">>

\* the cloud_accounts table: one account per provider
SampleAccounts ==
    << [id |-> 1, provider |-> AWS, account_identifier |-> AwsAccount],
       [id |-> 2, provider |-> GCP, account_identifier |-> GcpAccount],
       [id |-> 3, provider |-> AZURE, account_identifier |-> AzureAccount] >>

\* the cost rows a database is drawn from: six (provider, service) pairs in
\* the last day, two of them at 12000 and two at 3000, one row exactly one
\* day old, and an older row of the first pair
SampleCostRows ==
    { CostRow(SampleAccounts[1], [service |-> Compute, region |-> UsEast1], 20000, Today),
      CostRow(SampleAccounts[1], [service |-> Compute, region |-> EuWest1], 5000, Today - 2),
      CostRow(SampleAccounts[1], [service |-> Storage, region |-> UsEast1], 12000, Today),
      CostRow(SampleAccounts[2], [service |-> Compute, region |-> UsEast1], 12000, Today),
      CostRow(SampleAccounts[2], [service |-> Storage, region |-> UsEast1], 3000, Today - 1),
      CostRow(SampleAccounts[3], [service |-> Compute, region |-> UsEast1], 8000, Today),
      CostRow(SampleAccounts[3], [service |-> Storage, region |-> UsEast1], 3000, Today) }

\* the performance rows a database is drawn from: two rows of one AWS
\* resource, one of them older, a row of a second AWS resource exactly one
\* day old, and a GCP row
SamplePerformanceRows ==
    { PerformanceRow(SampleAccounts[1],
          [service |-> Compute, region |-> UsEast1, resource_id |-> AwsWorkload], 650, Today),
      PerformanceRow(SampleAccounts[1],
          [service |-> Compute, region |-> UsEast1, resource_id |-> AwsWorkload], 800, Today - 2),
      PerformanceRow(SampleAccounts[1],
          [service |-> Storage, region |-> UsEast1, resource_id |-> AwsStorageWorkload], 400, Today - 1),
      PerformanceRow(SampleAccounts[2],
          [service |-> Compute, region |-> UsEast1, resource_id |-> GcpWorkload], 635, Today) }

\* days arguments of the endpoints: None, a negative number, 0, 1 and 3
WindowArguments == {<<>>, <<-2>>, <<0>>, <<1>>, <<3>>}

\* the savings_threshold of the calls: the default, in thousandths
DefaultThreshold == 150

InitReads ==
    /\ now = Today
    /\ cloud_accounts = SampleAccounts
    /\ cost_records \in {SetToBag(rows) : rows \in SUBSET SampleCostRows}
    /\ performance_records \in {SetToBag(rows) : rows \in SUBSET SamplePerformanceRows}
    /\ reply = NoReply
    /\ request = NoRequest
    /\ normalized = NotNormalized
    /\ seeding = NotSeeding

ReadOverview == \E days \in WindowArguments : OverviewSummaryCall(days)

ReadComparison == \E days \in WindowArguments : ComparisonSummaryCall(days)

ReadSuggestions == \E days \in WindowArguments : OptimizationSuggestionsCall(days, DefaultThreshold)

NextReads ==
    \/ ReadOverview
    \/ ReadComparison
    \/ ReadSuggestions

SpecReads == InitReads /\ [][NextReads]_vars

-----------------------------------------------------------------------------
(* Claims about get_overview_summary and get_comparison_summary *)

\* the number of days the claims give the window of a reply
ClaimedWindowDays ==
    IF reply.days = <<>> THEN 1
    ELSE IF reply.days[1] <= 0 THEN 1 ELSE reply.days[1]

\* the rows of a table the claims count: timestamp >= now - window days
RowsSince(table) == {r \in BagToSet(table) : r.timestamp >= now - ClaimedWindowDays}

\* the same rows of one provider
ProviderRowsSince(table, provider) == {r \in RowsSince(table) : r.provider = provider}

Overviewed == reply.op = "overview"

\* C14: the overview has one total per provider AWS, AZURE and GCP and no
\* other, the sum of cost_amount over the provider's cost rows of the window
\* (0.0 without such a row); when the window has no row, the three totals
\* are 0.0 and top_services is empty.
C14_TotalsZeroFilled ==
    Overviewed =>
        LET overview == reply.overview[1]
            totals == overview.total_cost_per_provider
        IN  /\ DOMAIN totals = {AWS, AZURE, GCP}
            /\ \A p \in {AWS, AZURE, GCP} :
                  /\ totals[p] = SumCost(ProviderRowsSince(cost_records, p))
                  /\ ProviderRowsSince(cost_records, p) = {} => totals[p] = 0
            /\ RowsSince(cost_records) = {} =>
                  /\ \A p \in {AWS, AZURE, GCP} : totals[p] = 0
                  /\ overview.top_services = <<>>

\* C14 witness: an overview of a window in which one provider has cost rows
\* and another has none.
C14_Witness ==
    /\ Overviewed
    /\ reply.overview[1].total_cost_per_provider[AWS] > 0
    /\ ProviderRowsSince(cost_records, AZURE) = {}
    /\ reply.overview[1].total_cost_per_provider[AZURE] = 0

\* C14 witness: an overview of a window without rows, over a table that has
\* an older row.
C14_EmptyWindowWitness ==
    /\ Overviewed
    /\ cost_records # EmptyBag
    /\ RowsSince(cost_records) = {}
    /\ reply.overview[1].top_services = <<>>
    /\ \A p \in Providers : reply.overview[1].total_cost_per_provider[p] = 0

\* the (provider, service) pairs with cost rows in the window of the reply
PairsSince == {<<r.provider, r.service>> : r \in RowsSince(cost_records)}

\* the sum of cost_amount of a pair over the window of the reply
PairSum(pair) ==
    SumCost({r \in RowsSince(cost_records) : <<r.provider, r.service>> = pair})

\* the pairs top_services lists
ListedPairs ==
    LET top == reply.overview[1].top_services
    IN  {<<top[i].provider, top[i].service>> : i \in DOMAIN top}

\* C15: top_services holds at most 5 entries (all the pairs when there are
\* fewer), each of a different (provider, service) pair with cost rows in the
\* window and carrying the sum of the pair, in non-increasing order of the
\* sum; no pair left out has a larger sum than a listed pair.
C15_TopFiveServices ==
    Overviewed =>
        LET top == reply.overview[1].top_services
        IN  /\ Len(top) <= 5
            /\ Len(top) = (IF Cardinality(PairsSince) < 5 THEN Cardinality(PairsSince) ELSE 5)
            /\ \A i \in DOMAIN top :
                  /\ <<top[i].provider, top[i].service>> \in PairsSince
                  /\ top[i].total_cost = PairSum(<<top[i].provider, top[i].service>>)
            /\ \A i, j \in DOMAIN top :
                  i < j => /\ <<top[i].provider, top[i].service>> # <<top[j].provider, top[j].service>>
                           /\ top[i].total_cost >= top[j].total_cost
            /\ \A pair \in PairsSince \ ListedPairs :
                  \A i \in DOMAIN top : PairSum(pair) <= top[i].total_cost

\* C15 witness: six pairs in the window, five listed, one left out; the
\* first pair sums two rows.
C15_Witness ==
    /\ Overviewed
    /\ Cardinality(PairsSince) = 6
    /\ Len(reply.overview[1].top_services) = 5
    /\ PairsSince \ ListedPairs # {}
    /\ reply.overview[1].top_services[1].total_cost = 25000
    /\ reply.overview[1].top_services[2].total_cost = reply.overview[1].top_services[3].total_cost

Compared == reply.op = "comparison"

\* C16: the comparison has three entries, one per provider AWS, AZURE and
\* GCP; total_cost is the provider's cost sum of the window (0.0 without
\* rows), avg_cpu_utilization is null exactly when the provider has no
\* performance row in the window and the mean of cpu_utilization over these
\* rows otherwise, workload_count the number of their distinct resource_id.
C16_ComparisonPerProvider ==
    Compared =>
        /\ Len(reply.comparison) = 3
        /\ \A p \in {AWS, AZURE, GCP} :
              \E i \in DOMAIN reply.comparison : reply.comparison[i].provider = p
        /\ \A i \in DOMAIN reply.comparison :
              LET entry == reply.comparison[i]
                  cost_rows == ProviderRowsSince(cost_records, entry.provider)
                  perf_rows == ProviderRowsSince(performance_records, entry.provider)
              IN  /\ entry.total_cost = SumCost(cost_rows)
                  /\ cost_rows = {} => entry.total_cost = 0
                  /\ entry.avg_cpu_utilization.known <=> perf_rows # {}
                  /\ perf_rows # {} =>
                        entry.avg_cpu_utilization.num * Cardinality(perf_rows)
                            = SumCpu(perf_rows) * entry.avg_cpu_utilization.den
                  /\ entry.workload_count = Cardinality({r.resource_id : r \in perf_rows})
                  /\ perf_rows = {} => entry.workload_count = 0

\* C16 witness: a comparison in which AWS has three performance rows of two
\* resources in the window, with a mean of (650 + 800 + 400) / 3, and AZURE
\* has cost rows and no performance row.
C16_Witness ==
    /\ Compared
    /\ \E i, j \in DOMAIN reply.comparison :
          /\ reply.comparison[i].provider = AWS
          /\ Cardinality(ProviderRowsSince(performance_records, AWS)) = 3
          /\ reply.comparison[i].workload_count = 2
          /\ reply.comparison[i].avg_cpu_utilization.num * 3
                = 1850 * reply.comparison[i].avg_cpu_utilization.den
          /\ reply.comparison[j].provider = AZURE
          /\ reply.comparison[j].total_cost > 0
          /\ ~reply.comparison[j].avg_cpu_utilization.known
          /\ reply.comparison[j].workload_count = 0

\* the reply was computed for a days argument that is None, 0 or negative
ClampedReply == reply.op # "none" /\ (reply.days = <<>> \/ reply.days[1] <= 0)

\* the rows of a table in the window of the reply that belong to workload w
WorkloadRowsSince(table, w) == {r \in RowsSince(table) : WorkloadKey(r) = WorkloadKey(w)}

\* the figures of workload w come from the rows of the window alone
FromWindowRows(w) ==
    LET perf_rows == WorkloadRowsSince(performance_records, w)
    IN  /\ w.total_cost = SumCost(WorkloadRowsSince(cost_records, w))
        /\ w.avg_cpu.known <=> perf_rows # {}
        /\ perf_rows # {} =>
              w.avg_cpu.num * Cardinality(perf_rows) = SumCpu(perf_rows) * w.avg_cpu.den

\* C17: for a days argument that is None, 0 or negative each of the three
\* read operations returns what it returns for days = 1; the overview
\* reports time_window_days = max(days, 1); and the totals, averages, counts
\* and recommendations of a reply come from the rows with timestamp >=
\* now - max(days, 1) days alone.
C17_DaysClamped ==
    /\ ClampedReply =>
          /\ Overviewed => reply.overview = <<OverviewSummary(<<1>>)>>
          /\ Compared => reply.comparison = ComparisonSummary(<<1>>)
          /\ Recommended => reply.suggestions = Suggestions(<<1>>, reply.threshold)
    /\ Overviewed =>
          LET overview == reply.overview[1]
          IN  /\ overview.time_window_days = ClaimedWindowDays
              /\ overview.time_window_days >= 1
              /\ \A p \in Providers :
                    overview.total_cost_per_provider[p] = SumCost(ProviderRowsSince(cost_records, p))
              /\ \A i \in DOMAIN overview.top_services :
                    overview.top_services[i].total_cost
                        = PairSum(<<overview.top_services[i].provider, overview.top_services[i].service>>)
    /\ Compared =>
          \A i \in DOMAIN reply.comparison :
              LET entry == reply.comparison[i]
                  perf_rows == ProviderRowsSince(performance_records, entry.provider)
              IN  /\ entry.total_cost = SumCost(ProviderRowsSince(cost_records, entry.provider))
                  /\ entry.workload_count = Cardinality({r.resource_id : r \in perf_rows})
                  /\ entry.avg_cpu_utilization.num * Cardinality(perf_rows)
                        = SumCpu(perf_rows) * entry.avg_cpu_utilization.den
    /\ Recommended =>
          \A i \in DOMAIN reply.suggestions :
              FromWindowRows(reply.suggestions[i].source) /\ FromWindowRows(reply.suggestions[i].target)

\* C17 witness: recommendations for days = -2 over tables that hold the
\* older performance row of the source: the source's average is that of its
\* row of the last day, 65.0.
C17_Witness ==
    /\ Recommended
    /\ reply.days = <<-2>>
    /\ \E r \in BagToSet(performance_records) : r.timestamp < now - 1
    /\ \E i \in DOMAIN reply.suggestions :
          /\ reply.suggestions[i].source.provider = AWS
          /\ reply.suggestions[i].source.avg_cpu = [known |-> TRUE, num |-> 650, den |-> 1]
          /\ \E r \in BagToSet(performance_records) :
                /\ WorkloadKey(r) = WorkloadKey(reply.suggestions[i].source)
                /\ r.timestamp < now - 1

\* C17 witness: an overview for days = 0 that counts the row exactly one day
\* old and leaves out the row two days old.
C17_BoundaryWitness ==
    /\ Overviewed
    /\ reply.days = <<0>>
    /\ reply.overview[1].time_window_days = 1
    /\ \E r \in BagToSet(cost_records) : r.timestamp = now - 2
    /\ \E r \in BagToSet(cost_records) : r.timestamp = now - 1
    /\ reply.overview[1].total_cost_per_provider[GCP] = 3000
    /\ reply.overview[1].total_cost_per_provider[AWS] = 0

-----------------------------------------------------------------------------
(* Claims about the choice among the substitutes of a workload *)

\* the place of workload w in the workload order of the reply
PlaceOf(w) == CHOOSE i \in DOMAIN ReplyWorkloads : WorkloadKey(ReplyWorkloads[i]) = WorkloadKey(w)

\* C20: the workload a recommendation names is an eligible substitute of
\* its source of the lowest total cost; among the eligible substitutes of
\* that cost it is the first in the workload order, so that a later
\* candidate of equal or higher cost has not replaced it.
C20_LowestCostFirstFound ==
    Recommended =>
        \A k \in DOMAIN reply.suggestions :
            LET a == reply.suggestions[k].source
                b == reply.suggestions[k].target
            IN  /\ EligibleSubstitute(a, b)
                /\ \A i \in DOMAIN ReplyWorkloads :
                      EligibleSubstitute(a, ReplyWorkloads[i]) =>
                          \/ CostOf(b) < CostOf(ReplyWorkloads[i])
                          \/ /\ CostOf(b) = CostOf(ReplyWorkloads[i])
                             /\ PlaceOf(b) <= i

\* C20 witness: a source with two eligible substitutes of the same cost;
\* the recommendation names the one that comes first.
C20_Witness ==
    /\ Recommended
    /\ \E k \in DOMAIN reply.suggestions :
          LET a == reply.suggestions[k].source
              b == reply.suggestions[k].target
          IN  \E i \in DOMAIN ReplyWorkloads :
                  /\ EligibleSubstitute(a, ReplyWorkloads[i])
                  /\ CostOf(ReplyWorkloads[i]) = CostOf(b)
                  /\ PlaceOf(b) < i

\* C20 witness: a source with a cheaper and a dearer eligible substitute,
\* the dearer one first in the workload order; the cheaper one is named.
C20_CheaperLaterWitness ==
    /\ Recommended
    /\ \E k \in DOMAIN reply.suggestions :
          LET a == reply.suggestions[k].source
              b == reply.suggestions[k].target
          IN  \E i \in DOMAIN ReplyWorkloads :
                  /\ EligibleSubstitute(a, ReplyWorkloads[i])
                  /\ CostOf(ReplyWorkloads[i]) > CostOf(b)
                  /\ i < PlaceOf(b)

-----------------------------------------------------------------------------
(* scripts/seed_demo_data.py over the provider adapters.  The tables        *)
(* cloud_accounts, cost_records and performance_records are what is        *)
(* committed; the session of a run works on seeding.pending, its open      *)
(* transaction, which a commit makes the tables and a rollback discards.   *)

\* runs of seed_demo_data in one behaviour, and days the clock advances
MaxSeedRuns == 2
MaxClockAdvance == 1

\* Python's min
Min(a, b) == IF a <= b THEN a ELSE b

\* _normalize_range of the three clients, for start_date <= end_date
NormalizeRange(start_date, end_date) ==
    LET normalized_end == Min(end_date, now)
        normalized_start == Max(start_date, normalized_end - 30)
    IN  <<normalized_start, normalized_end>>

\* _clamp_timestamp
ClampTimestamp(ts, start, end) ==
    IF ts < start THEN start
    ELSE IF ts > end THEN end
    ELSE ts

\* get_mock_cost_data / get_mock_performance_data of a client: the records
\* of the client with timestamp reference_end - timedelta(days=k), clamped,
\* where k is the distance the record keeps from the end of the range
GetMockData(data, start_date, end_date) ==
    LET range == NormalizeRange(start_date, end_date)
    IN  [i \in DOMAIN data |->
            With(data[i], "timestamp",
                 Datetime(ClampTimestamp(range[2] - (Today - data[i]["timestamp"].day),
                                         range[1], range[2])))]

\* module.get_mock_cost_data and module.get_mock_performance_data of
\* provider_modules
MockCostData(provider) ==
    CASE provider = AWS -> AwsMockCostData
      [] provider = AZURE -> AzureMockCostData
      [] provider = GCP -> GcpMockCostData

MockPerformanceData(provider) ==
    CASE provider = AWS -> AwsMockPerformanceData
      [] provider = AZURE -> AzureMockPerformanceData
      [] provider = GCP -> GcpMockPerformanceData

\* all_costs.extend(...) over the providers from position i on
RECURSIVE ExtendAll(_, _)
ExtendAll(results, i) ==
    IF i > Len(results) THEN <<>>
    ELSE results[i].records \o ExtendAll(results, i + 1)

\* the end of fetch_and_normalize_all_providers: the two lists extended by
\* the lists of each provider, or the exception of the first call that raises
FetchedLists(costs, performance) ==
    LET failed == {i \in DOMAIN CloudProviderEnum :
                      costs[i].status = "raised" \/ performance[i].status = "raised"}
    IN  IF failed # {}
        THEN LET first == CHOOSE i \in failed : \A j \in failed : i <= j
             IN  [status |-> "raised",
                  error |-> IF costs[first].status = "raised" THEN costs[first].error
                            ELSE performance[first].error,
                  cost |-> <<>>, performance |-> <<>>]
        ELSE [status |-> "returned", error |-> "",
              cost |-> ExtendAll(costs, 1), performance |-> ExtendAll(performance, 1)]

\* fetch_and_normalize_all_providers (the clients raise ValueError for
\* start > end)
FetchAndNormalizeAllProviders(start_date, end_date) ==
    IF start_date > end_date
    THEN [status |-> "raised", error |-> "ValueError", cost |-> <<>>, performance |-> <<>>]
    ELSE FetchedLists(
             [i \in DOMAIN CloudProviderEnum |->
                 NormalizeCostRecordsResult(CloudProviderEnum[i],
                     ListValue(GetMockData(MockCostData(CloudProviderEnum[i]), start_date, end_date)))],
             [i \in DOMAIN CloudProviderEnum |->
                 NormalizePerformanceRecordsResult(CloudProviderEnum[i],
                     ListValue(GetMockData(MockPerformanceData(CloudProviderEnum[i]), start_date, end_date)))])

\* required_pairs of ensure_cloud_accounts
RequiredPairs(records) == {<<records[i].provider, records[i].account_id>> : i \in DOMAIN records}

PairLess(p1, p2) ==
    IF p1[1] # p2[1] THEN StrLess(ProviderText(p1[1]), ProviderText(p2[1]))
    ELSE StrLess(p1[2], p2[2])

RECURSIVE SortPairs(_)
SortPairs(pairs) ==
    IF pairs = {} THEN <<>>
    ELSE LET first == CHOOSE p \in pairs : \A other \in pairs \ {p} : PairLess(p, other)
         IN  <<first>> \o SortPairs(pairs \ {first})

Reverse(s) == [i \in DOMAIN s |-> s[Len(s) + 1 - i]]

\* "for provider, account_identifier in required_pairs": a Python set of
\* tuples of strings is iterated in the order of the hashes of the run; the
\* model takes the pairs in ascending or in descending order
IterationOrders(pairs) == {SortPairs(pairs), Reverse(SortPairs(pairs))}

\* the filter of purge_existing_records with timestamp > start in place of
\* timestamp >= start
InPurgeWindowAfterStart(ts, start, end) == ts > start /\ ts <= end

\* the filter of purge_existing_records: timestamp >= start, timestamp <= end
InPurgeWindow(ts, start, end) == ts >= start /\ ts <= end

\* query.delete(): the table without the rows of the window
Purge(table, start, end) ==
    [r \in {x \in BagToSet(table) : ~InPurgeWindow(x.timestamp, start, end)} |-> table[r]]

\* purge_existing_records on the tables of the transaction
PurgeExistingRecords(tables, start, end) ==
    <<tables[1], Purge(tables[2], start, end), Purge(tables[3], start, end)>>

\* CachedAccount with the id of the first pair of the cache for every record
CachedAccountOfFirstPair(required_pairs, account_cache, record) ==
    [provider |-> record.provider, id |-> account_cache[1]]

\* the CloudAccount of the cache for a record
CachedAccount(required_pairs, account_cache, record) ==
    LET k == CHOOSE i \in DOMAIN required_pairs :
                 required_pairs[i] = <<record.provider, record.account_id>>
    IN  [provider |-> record.provider, id |-> account_cache[k]]

RECURSIVE SeqToBag(_)
SeqToBag(rows) ==
    IF rows = <<>> THEN EmptyBag
    ELSE SetToBag({Head(rows)}) (+) SeqToBag(Tail(rows))

\* convert_cost_records: the CostRecordDB objects, with the columns a query
\* reads
ConvertCostRecords(cost_records_list, required_pairs, account_cache) ==
    SeqToBag([i \in DOMAIN cost_records_list |->
        LET record == cost_records_list[i]
        IN  CostRow(CachedAccount(required_pairs, account_cache, record),
                    [service |-> record.service, region |-> record.region],
                    record.cost_amount, record.timestamp)])

\* convert_performance_records.  cpu_utilization goes from the hundredths of
\* a record to the tenths of the table (the adapters' values have one
\* decimal).
ConvertPerformanceRecords(performance_records_list, required_pairs, account_cache) ==
    SeqToBag([i \in DOMAIN performance_records_list |->
        LET record == performance_records_list[i]
        IN  PerformanceRow(CachedAccount(required_pairs, account_cache, record),
                           [service |-> record.service, region |-> record.region,
                            resource_id |-> record.resource_id],
                           record.cpu_utilization \div 10, record.timestamp)])

\* session.flush() that ends the transaction as session.commit() does: the
\* tables become what the transaction holds
FlushCommitting(tables, pending) == pending

\* session.flush(): the statements go to the database inside the open
\* transaction; the committed tables stay as they are
Flush(tables, pending) == tables

\* (start, end) arguments: a range of 40 days ending now, a range ending in
\* the future, a range that starts in the future, and start > end
SeedWindows ==
    { <<Today - 40, Today>>, <<Today - 10, Today + 5>>,
      <<Today + 1, Today + 3>>, <<Today, Today - 1>> }

\* the run that committed just before the one that starts
PreviousRun ==
    IF seeding.outcome = "committed"
    THEN [committed |-> TRUE, start |-> seeding.start, end |-> seeding.end,
          cost_total |-> BagCardinality(cost_records),
          performance_total |-> BagCardinality(performance_records)]
    ELSE NoPreviousRun

\* the run leaves the try: finally: session.close() (lines 218-219); the
\* transaction is gone, the pairs of ensure_cloud_accounts and the outcome
\* stay
Finished(outcome, error, failed_step, inserted, discarded) ==
    [NotSeeding EXCEPT
        !.runs = seeding.runs, !.start = seeding.start, !.end = seeding.end,
        !.before = seeding.before, !.previous = seeding.previous,
        !.required_pairs = seeding.required_pairs,
        !.session = "closed",
        !.outcome = outcome, !.error = error, !.failed_step = failed_step,
        !.inserted = inserted, !.discarded = discarded]

\* the run after the fetch, with the session of line 183 open: an exception
\* of the fetch (line 185) propagates and two empty lists return (lines
\* 187-189), both before the try whose finally closes the session; anything
\* else enters the try
Begun(window, fetched) ==
    LET begun == [NotSeeding EXCEPT
                     !.session = "open",
                     !.runs = seeding.runs + 1, !.start = window[1], !.end = window[2],
                     !.before = db, !.previous = PreviousRun]
    IN  IF fetched.status = "raised"
        THEN [begun EXCEPT !.outcome = "raised", !.error = fetched.error,
                           !.failed_step = "fetch"]
        ELSE IF fetched.cost = <<>> /\ fetched.performance = <<>>
        THEN [begun EXCEPT !.outcome = "returned"]
        ELSE [begun EXCEPT !.pc = "purge", !.pending = db,
                           !.cost_records = fetched.cost,
                           !.performance_records = fetched.performance]

\* seed_demo_data(start, end) up to the try: create_all_tables(), a session,
\* fetch_and_normalize_all_providers
SeedDemoData ==
    /\ seeding.pc = "idle"
    /\ seeding.runs < MaxSeedRuns
    /\ \E window \in SeedWindows :
          seeding' = Begun(window, FetchAndNormalizeAllProviders(window[1], window[2]))
    /\ UNCHANGED <<now, cloud_accounts, cost_records, performance_records, reply, request, normalized>>

\* purge_existing_records(session, start, end), line 192; then
\* ensure_cloud_accounts builds required_pairs
SeedPurgeExistingRecords ==
    /\ seeding.pc = "purge"
    /\ \E order \in IterationOrders(RequiredPairs(seeding.cost_records \o seeding.performance_records)) :
          seeding' = [seeding EXCEPT
                         !.pc = "accounts",
                         !.pending = PurgeExistingRecords(seeding.pending, seeding.start, seeding.end),
                         !.required_pairs = order]
    /\ UNCHANGED <<now, cloud_accounts, cost_records, performance_records, reply, request, normalized>>

\* one turn of the loop of ensure_cloud_accounts (lines 92-111): the account
\* of the pair is looked up by provider and account_identifier and created
\* and flushed when there is none; the unique account_identifier makes the
\* INSERT of the flush fail when another provider's account has it, and the
\* handler of seed_demo_data rolls back and raises
SeedEnsureCloudAccount ==
    /\ seeding.pc = "accounts"
    /\ LET k == Len(seeding.account_cache) + 1
           pair == seeding.required_pairs[k]
           accounts == seeding.pending[1]
           found == {i \in DOMAIN accounts :
                        /\ accounts[i].provider = pair[1]
                        /\ accounts[i].account_identifier = pair[2]}
           taken == \E i \in DOMAIN accounts : accounts[i].account_identifier = pair[2]
           created == [id |-> Len(accounts) + 1, provider |-> pair[1],
                       account_identifier |-> pair[2]]
           pending == IF found # {} THEN seeding.pending
                      ELSE <<Append(accounts, created), seeding.pending[2], seeding.pending[3]>>
           account_id == IF found # {} THEN accounts[CHOOSE i \in found : TRUE].id
                         ELSE created.id
           flushed == Flush(db, pending)
       IN  IF found = {} /\ taken
           THEN /\ seeding' = Finished("raised", "IntegrityError", "accounts",
                                       <<EmptyBag, EmptyBag>>, seeding.pending)
                /\ UNCHANGED <<cloud_accounts, cost_records, performance_records>>
           ELSE /\ seeding' = [seeding EXCEPT
                                  !.pending = pending,
                                  !.account_cache = Append(seeding.account_cache, account_id),
                                  !.pc = IF k = Len(seeding.required_pairs) THEN "insert" ELSE "accounts"]
                /\ cloud_accounts' = flushed[1]
                /\ cost_records' = flushed[2]
                /\ performance_records' = flushed[3]
    /\ UNCHANGED <<now, reply, request, normalized>>

\* convert_cost_records, convert_performance_records, session.add_all (lines
\* 205-208) and the INSERTs session.commit() sends first
SeedAddAll ==
    /\ seeding.pc = "insert"
    /\ LET cost_objects == ConvertCostRecords(seeding.cost_records,
                               seeding.required_pairs, seeding.account_cache)
           perf_objects == ConvertPerformanceRecords(seeding.performance_records,
                               seeding.required_pairs, seeding.account_cache)
       IN  seeding' = [seeding EXCEPT
                          !.pc = "commit",
                          !.inserted = <<cost_objects, perf_objects>>,
                          !.pending = <<seeding.pending[1],
                                        seeding.pending[2] (+) cost_objects,
                                        seeding.pending[3] (+) perf_objects>>]
    /\ UNCHANGED <<now, cloud_accounts, cost_records, performance_records, reply, request, normalized>>

\* the COMMIT of session.commit() (line 209), then session.close()
SeedCommit ==
    /\ seeding.pc = "commit"
    /\ cloud_accounts' = seeding.pending[1]
    /\ cost_records' = seeding.pending[2]
    /\ performance_records' = seeding.pending[3]
    /\ seeding' = Finished("committed", "", "", seeding.inserted, NotSeeding.discarded)
    /\ reply' = NoReply
    /\ UNCHANGED <<now, request, normalized>>

\* the statement of the current step fails in the database (disk full,
\* database locked): except Exception: session.rollback(); raise (lines
\* 215-219)
SeedWriteFails ==
    /\ seeding.pc \in {"purge", "accounts", "insert", "commit"}
    /\ seeding' = Finished("raised", "OperationalError", seeding.pc,
                           <<EmptyBag, EmptyBag>>, seeding.pending)
    /\ UNCHANGED <<now, cloud_accounts, cost_records, performance_records, reply, request, normalized>>

\* a day passes between two runs
Tick ==
    /\ seeding.pc = "idle"
    /\ now < Today + MaxClockAdvance
    /\ now' = now + 1
    /\ UNCHANGED <<cloud_accounts, cost_records, performance_records, reply, request, normalized, seeding>>

\* an account another provider holds under the name of a GCP project
ForeignAccount ==
    [id |-> 1, provider |-> AWS, account_identifier |-> GcpMockCostData[1]["project"].text]

\* the account of the AWS records, as an earlier run leaves it
SeededAccount == [id |-> 1, provider |-> AWS, account_identifier |-> DefaultAccounts(AWS)]

\* an account of a resource group the adapters no longer report
LegacyAccount == [id |-> 2, provider |-> AZURE, account_identifier |-> <<"r","g","-","l","e","g","a","c","y">>]

\* the databases a run starts from: empty; rows of an earlier run, two of
\* them in the ranges that reach the present (one is the only record of its
\* account) and one older than every range; an account that takes the
\* identifier of a GCP project
SeedDatabases ==
    { <<<<>>, EmptyBag, EmptyBag>>,
      << <<SeededAccount, LegacyAccount>>,
         SetToBag({CostRow(SeededAccount, [service |-> Compute, region |-> UsEast1], 9900, Today - 2),
                   CostRow(LegacyAccount, [service |-> Storage, region |-> EuWest1], 700, Today - 2)}),
         SetToBag({PerformanceRow(SeededAccount,
                      [service |-> Compute, region |-> UsEast1, resource_id |-> AwsWorkload],
                      500, Today - 60)}) >>,
      << <<ForeignAccount>>, EmptyBag, EmptyBag >> }

InitSeed ==
    /\ now = Today
    /\ \E tables \in SeedDatabases :
          /\ cloud_accounts = tables[1]
          /\ cost_records = tables[2]
          /\ performance_records = tables[3]
    /\ reply = NoReply
    /\ request = NoRequest
    /\ normalized = NotNormalized
    /\ seeding = NotSeeding

NextSeed ==
    \/ SeedDemoData
    \/ SeedPurgeExistingRecords
    \/ SeedEnsureCloudAccount
    \/ SeedAddAll
    \/ SeedCommit
    \/ SeedWriteFails
    \/ Tick

SpecSeed == InitSeed /\ [][NextSeed]_vars

-----------------------------------------------------------------------------
(* Claims about seed_demo_data *)

\* the latest run of seed_demo_data committed
Committed == seeding.pc = "idle" /\ seeding.outcome = "committed"

\* the row lies in [start, end] of the run
InRange(r) == r.timestamp >= seeding.start /\ r.timestamp <= seeding.end

\* the rows of a table that lie in [start, end] of the run, as a bag
RowsInRange(table) == [r \in {x \in BagToSet(table) : InRange(x)} |-> table[r]]

\* the number of records the three adapters return
AdapterCostRecords ==
    Len(AwsMockCostData) + Len(AzureMockCostData) + Len(GcpMockCostData)

AdapterPerformanceRecords ==
    Len(AwsMockPerformanceData) + Len(AzureMockPerformanceData) + Len(GcpMockPerformanceData)

\* the run follows a committed run with the same (start, end)
SecondRun ==
    /\ seeding.previous.committed
    /\ seeding.previous.start = seeding.start
    /\ seeding.previous.end = seeding.end

\* C18: after a committed run the rows of each record table inside
\* [start, end] are the rows the run inserted, one per record of the
\* adapters, and every row inserted lies inside [start, end]; a run that
\* follows a committed run with the same (start, end) leaves each table with
\* the number of rows the first run left; between the purge and the
\* insertion the transaction holds no row of [start, end], so the rows of
\* the first run are purged before they are inserted again.
C18_SeedingIdempotent ==
    /\ Committed =>
          /\ RowsInRange(cost_records) = seeding.inserted[1]
          /\ RowsInRange(performance_records) = seeding.inserted[2]
          /\ BagCardinality(RowsInRange(cost_records)) = AdapterCostRecords
          /\ BagCardinality(RowsInRange(performance_records)) = AdapterPerformanceRecords
          /\ \A r \in BagToSet(seeding.inserted[1]) \cup BagToSet(seeding.inserted[2]) : InRange(r)
          /\ SecondRun =>
                /\ BagCardinality(cost_records) = seeding.previous.cost_total
                /\ BagCardinality(performance_records) = seeding.previous.performance_total
    /\ seeding.pc \in {"accounts", "insert"} =>
          /\ RowsInRange(seeding.pending[2]) = EmptyBag
          /\ RowsInRange(seeding.pending[3]) = EmptyBag

\* C18 witness: a second run with the same (start, end), a day after the
\* first, has committed: the tables hold as many rows as after the first.
C18_Witness ==
    /\ Committed
    /\ SecondRun
    /\ seeding.runs = 2
    /\ now = Today + 1
    /\ BagCardinality(cost_records) = seeding.previous.cost_total
    /\ BagCardinality(RowsInRange(cost_records)) = 9
    /\ BagCardinality(RowsInRange(performance_records)) = 9

\* C18 witness: the second run with the same (start, end) has purged the
\* rows of the first and not yet inserted its own.
C18_PurgedWitness ==
    /\ seeding.pc = "insert"
    /\ SecondRun
    /\ BagCardinality(RowsInRange(cost_records)) = 9
    /\ RowsInRange(seeding.pending[2]) = EmptyBag

\* the latest run failed in the database after the purge had started
WriteFailed == seeding.failed_step \in {"purge", "accounts", "insert", "commit"}

\* C19: a run in which a statement of the purge, of the creation of an
\* account, of the insertion or of the commit fails ends with the error
\* raised to the caller and with the three tables holding exactly the rows
\* they held when the run began.
C19_FailureRollsBack ==
    WriteFailed =>
        /\ seeding.pc = "idle"
        /\ seeding.outcome = "raised"
        /\ seeding.error # ""
        /\ cloud_accounts = seeding.before[1]
        /\ cost_records = seeding.before[2]
        /\ performance_records = seeding.before[3]

\* C19 witness: the commit failed in a run that had purged a row and
\* created accounts; the row is back and no account of the run remains.
C19_Witness ==
    /\ WriteFailed
    /\ seeding.failed_step = "commit"
    /\ Len(seeding.discarded[1]) > Len(cloud_accounts)
    /\ \E r \in BagToSet(cost_records) : InRange(r) /\ r \notin BagToSet(seeding.discarded[2])
    /\ cost_records = seeding.before[2]

\* C19 witness: the INSERT of an account failed on the unique
\* account_identifier after other accounts had been created.
C19_IntegrityErrorWitness ==
    /\ WriteFailed
    /\ seeding.error = "IntegrityError"
    /\ Len(seeding.discarded[1]) > Len(cloud_accounts)
    /\ cloud_accounts = seeding.before[1]

-----------------------------------------------------------------------------
(* Claims about the direction of a recommendation *)

\* C24: for a savings_threshold > 0 the workload a recommendation names
\* costs strictly less than its source; so no two recommendations of a
\* reply point at each other, and a workload that no workload of its group
\* undercuts is never a source.
C24_StrictlyCheaper ==
    (Recommended /\ reply.threshold > 0) =>
        /\ \A k \in DOMAIN reply.suggestions :
              /\ CostOf(reply.suggestions[k].target) < CostOf(reply.suggestions[k].source)
              /\ \E i \in DOMAIN ReplyWorkloads :
                    /\ SameGroup(ReplyWorkloads[i], reply.suggestions[k].source)
                    /\ CostOf(ReplyWorkloads[i]) < CostOf(reply.suggestions[k].source)
        /\ \A k, l \in DOMAIN reply.suggestions :
              ~ /\ WorkloadKey(reply.suggestions[k].source) = WorkloadKey(reply.suggestions[l].target)
                /\ WorkloadKey(reply.suggestions[k].target) = WorkloadKey(reply.suggestions[l].source)

\* C24 witness: recommendations for the threshold 0.15 over a group of three
\* workloads with costs; the cheapest of them is the source of none.
C24_Witness ==
    /\ Recommended
    /\ reply.threshold = 150
    /\ reply.suggestions # <<>>
    /\ \E i, j \in DOMAIN ReplyWorkloads :
          /\ i # j
          /\ SameGroup(ReplyWorkloads[i], ReplyWorkloads[j])
          /\ CostOf(ReplyWorkloads[i]) > 0
          /\ CostOf(ReplyWorkloads[i]) < CostOf(ReplyWorkloads[j])
          /\ \A k \in DOMAIN reply.suggestions :
                WorkloadKey(reply.suggestions[k].source) # WorkloadKey(ReplyWorkloads[i])
          /\ \E k \in DOMAIN reply.suggestions :
                WorkloadKey(reply.suggestions[k].source) = WorkloadKey(ReplyWorkloads[j])

-----------------------------------------------------------------------------
(* Claims about the ranges of the provider adapters *)

\* the run holds the records the adapters returned for its (start, end)
Fetched == seeding.pc \in {"purge", "accounts", "insert", "commit"}

\* the timestamps of the records fetched
FetchedTimestamps ==
    {seeding.cost_records[i].timestamp : i \in DOMAIN seeding.cost_records}
        \cup {seeding.performance_records[i].timestamp : i \in DOMAIN seeding.performance_records}

\* C23: the adapters raise the invalid-window error exactly for start > end;
\* for start <= end the normalized range has normalized_start <=
\* normalized_end <= now and normalized_start >= normalized_end - 30 days,
\* and the timestamp of every record returned lies in the normalized range,
\* so it is no later than now and at most 30 days before normalized_end.
C23_RangeWithinLookback ==
    /\ seeding.failed_step = "fetch" => (seeding.error = "ValueError" /\ seeding.start > seeding.end)
    /\ (seeding.runs > 0 /\ seeding.start > seeding.end) => seeding.failed_step = "fetch"
    /\ Fetched =>
          LET range == NormalizeRange(seeding.start, seeding.end)
          IN  /\ seeding.start <= seeding.end
              /\ range[1] <= range[2]
              /\ range[2] <= now
              /\ range[1] >= range[2] - 30
              /\ \A ts \in FetchedTimestamps :
                    /\ range[1] <= ts /\ ts <= range[2]
                    /\ ts <= now
                    /\ ts >= range[2] - 30

-----------------------------------------------------------------------------
(* Claims about the accounts of a seeding run *)

\* the accounts of a table with the provider and the identifier of a pair
AccountsOfPair(accounts, pair) ==
    {i \in DOMAIN accounts :
        /\ accounts[i].provider = pair[1]
        /\ accounts[i].account_identifier = pair[2]}

\* the run met a pair whose account_id another provider's account held when
\* the run began
SharedIdentifier ==
    \E k \in DOMAIN seeding.required_pairs : \E i \in DOMAIN seeding.before[1] :
        /\ seeding.before[1][i].account_identifier = seeding.required_pairs[k][2]
        /\ seeding.before[1][i].provider # seeding.required_pairs[k][1]

\* C22: after a committed run every (provider, account_id) pair of the
\* records ingested has exactly one CloudAccount with that provider and
\* identifier; the accounts the run found are still there as they were, so
\* an account that existed is reused; and the creation of the account of a
\* pair never fails because an account of another provider has the same
\* identifier.
C22_AccountsKeyedByPair ==
    /\ Committed =>
          /\ seeding.required_pairs # <<>>
          /\ \A k \in DOMAIN seeding.required_pairs :
                Cardinality(AccountsOfPair(cloud_accounts, seeding.required_pairs[k])) = 1
          /\ \A i \in DOMAIN seeding.before[1] :
                i \in DOMAIN cloud_accounts /\ cloud_accounts[i] = seeding.before[1][i]
    /\ (seeding.pc = "idle" /\ SharedIdentifier) => seeding.error # "IntegrityError"

-----------------------------------------------------------------------------
(* Claims about the session of a seeding run *)

\* a run of seed_demo_data is over: it returned or raised
RunOver == seeding.pc = "idle" /\ seeding.runs > 0

\* C25: when a run of seed_demo_data is over, by a commit, by a failure
\* after the purge has started, by the early return for no records or by an
\* error of the fetch, the session it opened is closed.
C25_SeedSessionClosed == RunOver => seeding.session = "closed"

-----------------------------------------------------------------------------
(* Claims about the references of the record rows *)

\* every row of the table references an account of the accounts given, of
\* the provider of the row
Referenced(table, accounts) ==
    \A r \in BagToSet(table) :
        /\ r.account_id \in DOMAIN accounts
        /\ accounts[r.account_id].id = r.account_id
        /\ accounts[r.account_id].provider = r.provider

\* every row of the two record tables references an account of its provider
RowsReferenced ==
    /\ Referenced(cost_records, cloud_accounts)
    /\ Referenced(performance_records, cloud_accounts)

\* a step keeps every account as it is
AccountsKept ==
    /\ Len(cloud_accounts') >= Len(cloud_accounts)
    /\ \A i \in DOMAIN cloud_accounts : cloud_accounts'[i] = cloud_accounts[i]

\* an account of the table that no row of the two record tables references
WithoutRecords(i) ==
    \A r \in BagToSet(cost_records) \cup BagToSet(performance_records) : r.account_id # i

\* C28: in every state of a sequence of seeding runs, committed or rolled
\* back, every cost_records and performance_records row references a
\* CloudAccount that exists and has the provider of the row; and no step of
\* a run deletes or changes a CloudAccount row, so the accounts only grow.
C28_RowsReferenceAccounts == []RowsReferenced /\ [][AccountsKept]_vars

\* C28 witness: a committed run has purged the only record of an account
\* that existed when the run began; the account is still in the table, and
\* the run has created accounts and inserted rows that reference them.
C28_Witness ==
    /\ Committed
    /\ Len(cloud_accounts) > Len(seeding.before[1])
    /\ \E i \in DOMAIN seeding.before[1] :
          /\ \E r \in BagToSet(seeding.before[2]) : r.account_id = i
          /\ cloud_accounts[i] = seeding.before[1][i]
          /\ WithoutRecords(i)
    /\ \E r \in BagToSet(cost_records) : r.account_id > Len(seeding.before[1])

\* C28 witness: a run that had created accounts was rolled back; the rows
\* and the accounts are those of the start of the run.
C28_RolledBackWitness ==
    /\ RunOver
    /\ seeding.outcome = "raised"
    /\ Len(seeding.discarded[1]) > Len(cloud_accounts)
    /\ cost_records # EmptyBag
    /\ RowsReferenced

-----------------------------------------------------------------------------
(* seed_demo_data from the command line, with --days *)

\* the default of --days (line 39) and a shorter window
DefaultDays == 30

SeedDays == {10, DefaultDays}

\* resolve_window without --start-date: end = utcnow(), start = end - days
ResolveWindow(days) == <<now - days, now>>

\* main(): start, end = resolve_window(args); seed_demo_data(start, end)
Main ==
    /\ seeding.pc = "idle"
    /\ seeding.runs < MaxSeedRuns
    /\ \E days \in SeedDays : \E window \in {ResolveWindow(days)} :
          seeding' = Begun(window, FetchAndNormalizeAllProviders(window[1], window[2]))
    /\ UNCHANGED <<now, cloud_accounts, cost_records, performance_records, reply, request, normalized>>

\* the database before the first run is empty
InitDays ==
    /\ now = Today
    /\ cloud_accounts = <<>>
    /\ cost_records = EmptyBag
    /\ performance_records = EmptyBag
    /\ reply = NoReply
    /\ request = NoRequest
    /\ normalized = NotNormalized
    /\ seeding = NotSeeding

NextDays ==
    \/ Main
    \/ SeedPurgeExistingRecords
    \/ SeedEnsureCloudAccount
    \/ SeedAddAll
    \/ SeedCommit
    \/ SeedWriteFails
    \/ Tick

SpecDays == InitDays /\ [][NextDays]_vars

-----------------------------------------------------------------------------
(* Claims about runs with the same --days *)

\* the --days of the run and of the committed run before it, if any, agree
SameDays ==
    seeding.previous.committed =>
        seeding.previous.end - seeding.previous.start = seeding.end - seeding.start

\* C26: after runs with the same --days, the clock advancing between them,
\* each record table holds at most one row per record of the adapters (9
\* cost rows, 9 performance rows), and between the purge and the insertion
\* of a run the transaction holds no row at all: every row of the earlier
\* run lay in the window of the run and was purged.
C26_OneCopyPerRecord ==
    /\ (RunOver /\ SameDays) =>
          /\ BagCardinality(cost_records) <= AdapterCostRecords
          /\ BagCardinality(performance_records) <= AdapterPerformanceRecords
    /\ (seeding.pc \in {"accounts", "insert"} /\ SameDays) =>
          /\ seeding.pending[2] = EmptyBag
          /\ seeding.pending[3] = EmptyBag

-----------------------------------------------------------------------------
(* Claims about the average CPU of a workload *)

\* the databases of the storage workloads of the three providers: the cost
\* rows of the sample, and performance rows of memory and network metrics
\* (cpu_utilization 0.0, as _metric_to_performance_fields and
\* convert_performance_records leave them) next to rows of CPU metrics
NonCpuPerformanceRows ==
    { PerformanceRow(SampleAccounts[1],
          [service |-> Storage, region |-> UsEast1, resource_id |-> AwsStorageWorkload], 0, Today - 1),
      PerformanceRow(SampleAccounts[1],
          [service |-> Storage, region |-> UsEast1, resource_id |-> AwsStorageWorkload], 120, Today),
      PerformanceRow(SampleAccounts[2],
          [service |-> Storage, region |-> UsEast1, resource_id |-> GcpWorkload], 0, Today),
      PerformanceRow(SampleAccounts[3],
          [service |-> Storage, region |-> UsEast1, resource_id |-> AwsStorageWorkload], 0, Today - 2),
      PerformanceRow(SampleAccounts[3],
          [service |-> Storage, region |-> UsEast1, resource_id |-> AwsStorageWorkload], 400, Today) }

InitNonCpu ==
    /\ now = Today
    /\ cloud_accounts = SampleAccounts
    /\ cost_records \in {SetToBag(rows) : rows \in SUBSET {r \in SampleCostRows : r.service = Storage}}
    /\ performance_records \in {SetToBag(rows) : rows \in SUBSET NonCpuPerformanceRows}
    /\ reply = NoReply
    /\ request = NoRequest
    /\ normalized = NotNormalized
    /\ seeding = NotSeeding

NextNonCpu == ReadSuggestions

SpecNonCpu == InitNonCpu /\ [][NextNonCpu]_vars

\* the performance rows of workload w in the window of the reply
PerformanceRowsOf(w) == RowsOf(performance_records, w)

\* workload w has performance rows in the window, all with cpu_utilization
\* 0.0, as rows normalized from memory and network metrics have
OnlyNonCpuRows(w) ==
    /\ PerformanceRowsOf(w) # {}
    /\ \A r \in PerformanceRowsOf(w) : r.cpu_utilization = 0

\* the reply names workload w as the source of a recommendation
IsSource(w) ==
    \E k \in DOMAIN reply.suggestions :
        WorkloadKey(reply.suggestions[k].source) = WorkloadKey(w)

\* moving from a to b saves at least the threshold of the reply
SavesThreshold(a, b) == (CostOf(a) - CostOf(b)) * 1000 >= reply.threshold * CostOf(a)

\* C27: the average CPU of a workload of _collect_workloads is known exactly
\* when the workload has a performance row in the window, and is the mean
\* of cpu_utilization over those rows, the rows of 0.0 included; a workload
\* whose rows are all 0.0 has the average 0.0, not None; with cost > 0 it is
\* a source when a workload of its group within 10 points of CPU saves the
\* threshold, and as such a workload it makes another workload a source.
C27_AverageCpuKnown ==
    Recommended =>
        /\ \A i \in DOMAIN ReplyWorkloads :
              LET w == ReplyWorkloads[i]
                  rows == PerformanceRowsOf(w)
              IN  /\ w.avg_cpu.known <=> rows # {}
                  /\ rows # {} => w.avg_cpu.num * CountRows(rows) = SumCpu(rows) * w.avg_cpu.den
                  /\ OnlyNonCpuRows(w) => (w.avg_cpu.known /\ w.avg_cpu.num = 0)
        /\ \A k \in DOMAIN reply.suggestions :
              /\ PerformanceRowsOf(reply.suggestions[k].source) # {}
              /\ PerformanceRowsOf(reply.suggestions[k].target) # {}
        /\ \A i, j \in DOMAIN ReplyWorkloads :
              LET a == ReplyWorkloads[i]
                  b == ReplyWorkloads[j]
              IN  ( /\ OnlyNonCpuRows(a) \/ OnlyNonCpuRows(b)
                    /\ EligibleSubstitute(a, b)
                    /\ SavesThreshold(a, b) ) => IsSource(a)

\* C27 witness: a recommendation whose source and target both have
\* performance rows of 0.0 alone: the averages are 0.0, the workloads are
\* compared and the cheaper one is recommended.
C27_Witness ==
    /\ Recommended
    /\ \E k \in DOMAIN reply.suggestions :
          LET s == reply.suggestions[k]
          IN  /\ OnlyNonCpuRows(s.source)
              /\ OnlyNonCpuRows(s.target)
              /\ s.source.avg_cpu = [known |-> TRUE, num |-> 0, den |-> 1]
              /\ s.target.avg_cpu.known /\ s.target.avg_cpu.num = 0
              /\ s.source.total_cost > s.target.total_cost

-----------------------------------------------------------------------------
(* The session of a read operation, step by step *)

ReadOperations == {"overview", "comparison", "recommendations"}

\* window_start = _window_start(time_window_days); session = SessionLocal()
ReadOpens ==
    /\ reply.pc = "idle"
    /\ \E op \in ReadOperations, days \in WindowArguments :
          reply' = [NoReply EXCEPT
                       !.op = op, !.days = days,
                       !.threshold = IF op = "recommendations" THEN DefaultThreshold ELSE 0,
                       !.pc = "query", !.session = "open"]
    /\ UNCHANGED <<now, cloud_accounts, cost_records, performance_records, request, normalized, seeding>>

\* a query of the try block raises (database locked, table missing); the
\* finally clause runs and the exception leaves the call
ReadQueryRaises ==
    /\ reply.pc = "query"
    /\ reply' = [reply EXCEPT
                    !.pc = "idle", !.error = "OperationalError",
                    !.session = Finally(reply.session, "raised")]
    /\ UNCHANGED <<now, cloud_accounts, cost_records, performance_records, request, normalized, seeding>>

\* the try block returns: the result of the operation, or [] of line 217
\* when get_optimization_suggestions finds no workloads; the finally clause
\* runs
ReadReturns ==
    /\ reply.pc = "query"
    /\ LET recommending == reply.op = "recommendations"
           path == IF recommending /\ CollectWorkloads(WindowStart(reply.days)) = <<>>
                   THEN "early" ELSE "returned"
       IN  reply' = [reply EXCEPT
                        !.pc = "idle",
                        !.session = Finally(reply.session, path),
                        !.overview = IF reply.op = "overview"
                                     THEN <<OverviewSummary(reply.days)>> ELSE <<>>,
                        !.comparison = IF reply.op = "comparison"
                                       THEN ComparisonSummary(reply.days) ELSE <<>>,
                        !.suggestions = IF recommending /\ path = "returned"
                                        THEN Suggestions(reply.days, reply.threshold) ELSE <<>>,
                        !.scanned = IF recommending /\ path = "returned"
                                    THEN ScannedGroups(CollectWorkloads(WindowStart(reply.days)))
                                    ELSE <<>>]
    /\ UNCHANGED <<now, cloud_accounts, cost_records, performance_records, request, normalized, seeding>>

NextSessions ==
    \/ ReadOpens
    \/ ReadQueryRaises
    \/ ReadReturns

SpecSessions == InitNonCpu /\ [][NextSessions]_vars

-----------------------------------------------------------------------------
(* Claims about the sessions of the read operations *)

\* a call of a read operation has ended
CallOver == reply.op # "none" /\ reply.pc = "idle"

\* C21: when a call of get_overview_summary, get_comparison_summary or
\* get_optimization_suggestions has ended, by returning a result, by the
\* early return for no workloads or by an exception of a query, the session
\* it opened is closed; and the session is open only while the call runs.
C21_ReadSessionClosed ==
    /\ CallOver => reply.session = "closed"
    /\ reply.session = "open" => reply.pc = "query"

\* C21 witness: a call ended with the exception of a query and its session
\* closed.
C21_Witness ==
    /\ CallOver
    /\ reply.error = "OperationalError"
    /\ reply.session = "closed"

\* C21 witness: get_optimization_suggestions returned [] for no workloads in
\* the window of a database that has rows, its session closed.
C21_EarlyReturnWitness ==
    /\ CallOver
    /\ Recommended
    /\ reply.error = ""
    /\ ReplyWorkloads = <<>>
    /\ performance_records # EmptyBag
    /\ reply.session = "closed"

=============================================================================
